---- MODULE Spec2Model ----
(***************************************************************************)
(* A model of src/mpi/errhan/errutil.c (MPICH error reporting): the        *)
(* bit-packed error code, the error message ring and its mutex, and the    *)
(* MPIR_Err_return_xxx error handler dispatch.                             *)
(*                                                                         *)
(* Strings (const char * values) are sequences of character codes; the     *)
(* null pointer is the one-element sequence <<0>>, which is no C string.   *)
(* Pointers to objects are the names of the objects, "NULL" for null.      *)
(***************************************************************************)
EXTENDS Integers, Sequences, FiniteSets, TLC

(***************************************************************************)
(* Bounds of the model.                                                    *)
(***************************************************************************)
\* Capacity of the ring; the program's value is ERROR_SPECIFIC_INDEX_SIZE.
MAX_ERROR_RING == 2
\* Number of MPIR_Err_create_code calls the threads may start.
MaxCreates == 3
\* Number of dispatch (MPIR_Err_return_xxx) calls the threads may start.
MaxDispatches == 1

(***************************************************************************)
(* The error code layout of mpir_errcodes.h and the class values of mpi.h. *)
(***************************************************************************)
ERROR_CLASS_SIZE == 128
ERROR_FATAL_MASK == 128
ERROR_GENERIC_SHIFT == 256
ERROR_GENERIC_SIZE == 2048
ERROR_SPECIFIC_INDEX_SHIFT == 524288
ERROR_SPECIFIC_INDEX_SIZE == 128
ERROR_SPECIFIC_SEQ_SHIFT == 67108864
ERROR_SPECIFIC_SEQ_SIZE == 16
ERROR_DYN_MASK == 1073741824

MPI_SUCCESS == 0
MPI_ERR_BUFFER == 1
MPI_ERR_UNKNOWN == 13
MPI_ERR_OTHER == 15
MPI_ERR_INTERN == 16
MPI_ERR_IN_STATUS == 17
MPICH_ERR_LAST_CLASS == 74
MPICH_ERR_FIRST_MPIX == 100
MPICH_ERR_LAST_MPIX == 104

MAX_LOCATION_LEN == 63
MPIR_MAX_ERROR_LINE == 256

NULL_STR == <<0>>

\* ERROR_GET_CLASS / MPIR_ERR_GET_CLASS: errcode & ERROR_CLASS_MASK
ERROR_GET_CLASS(errcode) == errcode % ERROR_CLASS_SIZE

\* (errcode & ERROR_FATAL_MASK) != 0
FatalBit(errcode) == (errcode \div ERROR_FATAL_MASK) % 2 = 1

\* (errcode & ERROR_DYN_MASK) != 0
DynBit(errcode) == (errcode \div ERROR_DYN_MASK) % 2 = 1

\* (errcode & ERROR_GENERIC_MASK) >> ERROR_GENERIC_SHIFT
GenericField(errcode) == (errcode \div ERROR_GENERIC_SHIFT) % ERROR_GENERIC_SIZE

\* (errcode & ERROR_SPECIFIC_INDEX_MASK) >> ERROR_SPECIFIC_INDEX_SHIFT
SpecificIndexField(errcode) ==
    (errcode \div ERROR_SPECIFIC_INDEX_SHIFT) % ERROR_SPECIFIC_INDEX_SIZE

\* (errcode & ERROR_SPECIFIC_SEQ_MASK) >> ERROR_SPECIFIC_SEQ_SHIFT
SpecificSeqField(errcode) ==
    (errcode \div ERROR_SPECIFIC_SEQ_SHIFT) % ERROR_SPECIFIC_SEQ_SIZE

\* (errcode & ~ERROR_CLASS_MASK) | class
SetClass(errcode, class) == errcode - ERROR_GET_CLASS(errcode) + class

\* errcode | ERROR_FATAL_MASK
SetFatal(errcode) == IF FatalBit(errcode) THEN errcode ELSE errcode + ERROR_FATAL_MASK

is_valid_error_class(errcode) ==
    \/ errcode >= 0 /\ errcode <= MPICH_ERR_LAST_CLASS
    \/ errcode > MPICH_ERR_FIRST_MPIX /\ errcode <= MPICH_ERR_LAST_MPIX

MutIsFatalIgnoresDyn(errcode) == FatalBit(errcode)

MPIR_Err_is_fatal(errcode) ==
    IF DynBit(errcode) THEN FALSE ELSE FatalBit(errcode)

\* The code after checkValidErrcode(error_class, fcname, &errcode).
checkValidErrcode(error_class, errcode) ==
    IF error_class > MPICH_ERR_LAST_MPIX
    THEN SetClass(errcode, MPI_ERR_UNKNOWN)
    ELSE errcode

(***************************************************************************)
(* The message tables of defmsg.h: sorted by short name, every entry with  *)
(* its two sentinels (intact: both hold their magic values).               *)
(***************************************************************************)
\* "**a", "**f", "**user" and their long names "A", "F", "U"
generic_err_msgs ==
    << [short_name |-> <<42, 42, 97>>, long_name |-> <<65>>, intact |-> TRUE],
       [short_name |-> <<42, 42, 102>>, long_name |-> <<70>>, intact |-> TRUE],
       [short_name |-> <<42, 42, 117, 115, 101, 114>>, long_name |-> <<85>>,
        intact |-> TRUE] >>

\* "**f %d" with the long name "f"
specific_err_msgs ==
    << [short_name |-> <<42, 42, 102, 32, 37, 100>>, long_name |-> <<102>>,
        intact |-> TRUE] >>

USER_KEY == <<42, 42, 117, 115, 101, 114>>

Min(a, b) == IF a < b THEN a ELSE b
Max(a, b) == IF a > b THEN a ELSE b

\* strcmp(a, b): negative, zero or positive
RECURSIVE strcmp(_, _)
strcmp(a, b) ==
    IF a = <<>> /\ b = <<>> THEN 0
    ELSE IF a = <<>> THEN -1
    ELSE IF b = <<>> THEN 1
    ELSE IF Head(a) # Head(b) THEN Head(a) - Head(b)
    ELSE strcmp(Tail(a), Tail(b))

\* strncmp(a, b, n)
strncmp(a, b, n) ==
    strcmp(SubSeq(a, 1, Min(n, Len(a))), SubSeq(b, 1, Min(n, Len(b))))

RECURSIVE MutFindTrustsSentinels(_, _, _)
MutFindTrustsSentinels(table, msg, i) ==
    IF i >= Len(table) THEN -1
    ELSE LET c == strcmp(table[i + 1].short_name, msg) IN
         IF c = 0 THEN i
         ELSE IF c > 0 /\ strncmp(table[i + 1].short_name, msg, Len(msg)) # 0
              THEN -1
              ELSE MutFindTrustsSentinels(table, msg, i + 1)

\* The scan of FindGenericMsgIndex / FindSpecificMsgIndex from entry i on;
\* indexes are the C indexes (0-based), -1 is "not found".
RECURSIVE FindMsgIndexFrom(_, _, _)
FindMsgIndexFrom(table, msg, i) ==
    IF i >= Len(table) THEN -1
    ELSE IF ~table[i + 1].intact THEN -1
    ELSE LET c == strcmp(table[i + 1].short_name, msg) IN
         IF c = 0 THEN i
         ELSE IF c > 0 /\ strncmp(table[i + 1].short_name, msg, Len(msg)) # 0
              THEN -1
              ELSE FindMsgIndexFrom(table, msg, i + 1)

\* The entries whose short_name the scan from entry i on compares with msg
RECURSIVE FindMsgCompared(_, _, _)
FindMsgCompared(table, msg, i) ==
    IF i >= Len(table) THEN {}
    ELSE IF ~table[i + 1].intact THEN {}
    ELSE LET c == strcmp(table[i + 1].short_name, msg) IN
         IF c = 0 THEN {i}
         ELSE IF c > 0 /\ strncmp(table[i + 1].short_name, msg, Len(msg)) # 0
              THEN {i}
              ELSE {i} \cup FindMsgCompared(table, msg, i + 1)

FindGenericMsgIndex(msg) == FindMsgIndexFrom(generic_err_msgs, msg, 0)

FindSpecificMsgIndex(msg) == FindMsgIndexFrom(specific_err_msgs, msg, 0)

generic_msgs_len == Len(generic_err_msgs)

\* MPL_strncpy / snprintf into a buffer of n bytes: at most n - 1 characters
Truncate(s, n) == SubSeq(s, 1, Min(Len(s), Max(n - 1, 0)))

RECURSIVE SumChars(_)
SumChars(msg) == IF msg = <<>> THEN 0 ELSE Head(msg) + SumChars(Tail(msg))

\* ErrcodeCreateID: the ring id and the sequence number of a message
ErrcodeCreateID(error_class, generic_idx, msg) ==
    LET ring_seq == SumChars(msg) % ERROR_SPECIFIC_SEQ_SIZE IN
    [id |-> ERROR_GET_CLASS(error_class)
              + (generic_idx + 1) * ERROR_GENERIC_SHIFT
              + ring_seq * ERROR_SPECIFIC_SEQ_SHIFT,
     seq |-> ring_seq]

MutConvertKeepsPlusOne(errcode, maxloc) ==
    LET idx == SpecificIndexField(errcode) IN
    [ring_idx |-> idx,
     ring_id |-> ERROR_GET_CLASS(errcode)
                   + GenericField(errcode) * ERROR_GENERIC_SHIFT
                   + SpecificSeqField(errcode) * ERROR_SPECIFIC_SEQ_SHIFT,
     generic_idx |-> GenericField(errcode),
     rc |-> IF idx < 0 \/ idx >= MAX_ERROR_RING \/ idx > maxloc THEN 1 ELSE 0]

\* convertErrcodeToIndexes: rc # 0 when the ring index is out of range
convertErrcodeToIndexes(errcode, maxloc) ==
    LET idx == SpecificIndexField(errcode) IN
    [ring_idx |-> idx,
     ring_id |-> ERROR_GET_CLASS(errcode)
                   + GenericField(errcode) * ERROR_GENERIC_SHIFT
                   + SpecificSeqField(errcode) * ERROR_SPECIFIC_SEQ_SHIFT,
     generic_idx |-> GenericField(errcode) - 1,
     rc |-> IF idx < 0 \/ idx >= MAX_ERROR_RING \/ idx > maxloc THEN 1 ELSE 0]

MutValidNoIdCheck(errcode, ring, maxloc) ==
    LET c == convertErrcodeToIndexes(errcode, maxloc) IN
    IF is_valid_error_class(errcode) THEN 0
    ELSE IF c.rc # 0 THEN 1
    ELSE IF c.generic_idx < -1 \/ c.generic_idx > generic_msgs_len THEN 3
    ELSE 0

\* checkErrcodeIsValid: 0 when valid, else the reason
checkErrcodeIsValid(errcode, ring, maxloc) ==
    LET c == convertErrcodeToIndexes(errcode, maxloc) IN
    IF is_valid_error_class(errcode) THEN 0
    ELSE IF c.rc # 0 THEN 1
    ELSE IF ring[c.ring_idx].id # c.ring_id THEN 2
    ELSE IF c.generic_idx < -1 \/ c.generic_idx > generic_msgs_len THEN 3
    ELSE 0

MutUserErrcodeNoFlagCheck(errcode, ring, maxloc) ==
    LET c == convertErrcodeToIndexes(errcode, maxloc) IN
    IF errcode = MPI_SUCCESS THEN errcode
    ELSE IF c.rc # 0 THEN errcode
    ELSE IF c.generic_idx >= 0 /\ ring[c.ring_idx].id = c.ring_id
         THEN ring[c.ring_idx].user_error_code
         ELSE errcode

\* The body of checkForUserErrcode between lock and unlock
UserErrcodeOf(errcode, ring, maxloc) ==
    LET c == convertErrcodeToIndexes(errcode, maxloc) IN
    IF errcode = MPI_SUCCESS THEN errcode
    ELSE IF c.rc # 0 THEN errcode
    ELSE IF c.generic_idx >= 0 /\ ring[c.ring_idx].id = c.ring_id
            /\ ring[c.ring_idx].use_user_error_code = 1
         THEN ring[c.ring_idx].user_error_code
         ELSE errcode

\* memset(&ErrorRing[ring_idx], 0, sizeof(MPIR_Err_msg_t))
ZeroEntry ==
    [id |-> 0, prev_error |-> 0, use_user_error_code |-> 0,
     user_error_code |-> 0, location |-> <<>>, msg |-> <<>>]


RECURSIVE Digits(_)
\* The decimal digits snprintf writes for %d
Digits(n) ==
    IF n < 0 THEN <<45>> \o Digits(0 - n)
    ELSE IF n < 10 THEN <<48 + n>>
    ELSE Digits(n \div 10) \o <<48 + (n % 10)>>

RECURSIVE SnprintfD(_, _)
\* snprintf(buf, size, fmt, d) for a format with one %d directive at most
SnprintfD(fmt, d) ==
    IF fmt = <<>> THEN <<>>
    ELSE IF Len(fmt) >= 2 /\ fmt[1] = 37 /\ fmt[2] = 100
         THEN Digits(d) \o SubSeq(fmt, 3, Len(fmt))
         ELSE <<Head(fmt)>> \o SnprintfD(Tail(fmt), d)

\* vsnprintf_mpi(str, maxlen, fmt, list) for a format without directives:
\* the text after the last directive is copied by MPL_strncpy(str, begin, maxlen)
vsnprintf_mpi(maxlen, fmt) == Truncate(fmt, maxlen)

(***************************************************************************)
(* vsnprintf_mpi byte by byte.  The destination is ErrorRing[ring_idx].msg *)
(* as MPIR_Err_create_code_valist hands it over: maxlen + 1 bytes set to 0 *)
(* by memset (lines 803-804 and 990), bytes 0 .. maxlen - 1 of which are   *)
(* the renderer's.  A cursor is the record of the buffer buf, the position *)
(* str, the capacity maxlen that is left, the arguments list that are      *)
(* left, and the positions written so far.                                 *)
(***************************************************************************)
\* The cursor at the start of buf
CursorAt(maxlen, list) ==
    [buf |-> [i \in 0 .. maxlen |-> 0], str |-> 0, maxlen |-> maxlen,
     list |-> list, written |-> {}]

\* The bytes of text stored from position str on
Poke(cur, text) ==
    [cur EXCEPT !.buf = [i \in DOMAIN cur.buf |->
                            IF i >= cur.str /\ i < cur.str + Len(text)
                            THEN text[i - cur.str + 1] ELSE cur.buf[i]],
                !.written = cur.written
                              \cup (cur.str .. cur.str + Len(text) - 1)]

\* MPIR_Memcpy(str, begin, len); str += len; maxlen -= len
CopyLiteral(cur, text) ==
    [Poke(cur, text) EXCEPT !.str = cur.str + Len(text),
                            !.maxlen = cur.maxlen - Len(text)]

MutPutStringFull(cur, text) ==
    Poke(cur, SubSeq(text, 1, Min(Len(text), cur.maxlen)) \o <<0>>)

\* MPL_strncpy(str, text, maxlen) and snprintf(str, maxlen, "%d", d): no
\* byte for maxlen = 0, else maxlen - 1 characters at most and a 0
PutString(cur, text) ==
    IF cur.maxlen = 0 THEN cur
    ELSE Poke(cur, SubSeq(text, 1, Min(Len(text), cur.maxlen - 1)) \o <<0>>)

\* strlen(str): the bytes up to the first 0 from position str on
StrLen(cur) ==
    LET zeros == {i \in DOMAIN cur.buf : i >= cur.str /\ cur.buf[i] = 0}
    IN  IF zeros = {} THEN Cardinality(DOMAIN cur.buf) - cur.str
        ELSE (CHOOSE i \in zeros : \A j \in zeros : i <= j) - cur.str

\* len = strlen(str); maxlen -= len; str += len
SkipWritten(cur) ==
    [cur EXCEPT !.str = cur.str + StrLen(cur),
                !.maxlen = cur.maxlen - StrLen(cur)]

\* strchr(begin, '%'): the index of the first '%' of begin, 0 for none
FirstPercent(begin) ==
    IF \E i \in DOMAIN begin : begin[i] = 37
    THEN CHOOSE i \in DOMAIN begin :
            begin[i] = 37 /\ \A j \in 1 .. i - 1 : begin[j] # 37
    ELSE 0

RECURSIVE RenderFrom(_, _)
\* Lines 1546-1747: the loop over the directives of begin and the copy of
\* the text after the last one; directives %s (115) and %d (100), any other
\* character after '%' ends the call (default, line 1726)
RenderFrom(cur, begin) ==
    LET end == FirstPercent(begin) IN
    IF end = 0
    THEN IF begin # <<>> THEN PutString(cur, begin) ELSE cur
    ELSE LET len == Min(cur.maxlen, end - 1)
             lit == CopyLiteral(cur, SubSeq(begin, 1, len))
             dir == IF end < Len(begin) THEN begin[end + 1] ELSE 0
             rest == SubSeq(begin, end + 2, Len(begin))
             popped == [lit EXCEPT !.list = Tail(lit.list)]
         IN  IF dir = 115
             THEN RenderFrom(SkipWritten(PutString(popped,
                                 IF Head(lit.list) = NULL_STR
                                 THEN <<60, 78, 85, 76, 76, 62>>
                                 ELSE Head(lit.list))), rest)
             ELSE IF dir = 100
             THEN RenderFrom(SkipWritten(PutString(popped,
                                 Digits(Head(lit.list)))), rest)
             ELSE lit

(***************************************************************************)
(* MPIR_Err_get_string and MPIR_Err_print_stack_string, with               *)
(* MPIR_CVAR_PRINT_ERROR_STACK true and MPIR_CVAR_CHOP_ERROR_STACK 0 (the   *)
(* defaults).  Texts are sequences of character codes.                     *)
(***************************************************************************)
\* ", error stack:\n"
ErrorStackStr ==
    <<44, 32, 101, 114, 114, 111, 114, 32, 115, 116, 97, 99, 107, 58, 10>>

\* "(unknown)(): "
UnknownStr == <<40, 117, 110, 107, 110, 111, 119, 110, 41, 40, 41, 58, 32>>

\* "Unknown error class"
UnknownClassStr ==
    <<85, 110, 107, 110, 111, 119, 110, 32, 101, 114, 114, 111, 114, 32, 99,
      108, 97, 115, 115>>

\* "Undefined dynamic error code"
UndefinedDynamicStr ==
    <<85, 110, 100, 101, 102, 105, 110, 101, 100, 32, 100, 121, 110, 97, 109,
      105, 99, 32, 101, 114, 114, 111, 114, 32, 99, 111, 100, 101>>

\* "Error code contains an invalid class ("
InvalidClassStr ==
    <<69, 114, 114, 111, 114, 32, 99, 111, 100, 101, 32, 99, 111, 110, 116,
      97, 105, 110, 115, 32, 97, 110, 32, 105, 110, 118, 97, 108, 105, 100,
      32, 99, 108, 97, 115, 115, 32, 40>>

\* The size of error_msg in MPIR_Handle_fatal_error
MAX_ERRMSG_STRING == 4096

\* class_to_index of defmsg.h: the generic message that describes a class
class_to_index(error_class) == IF error_class = MPI_ERR_BUFFER THEN 0 ELSE 1

get_class_msg(error_class) ==
    IF is_valid_error_class(error_class)
    THEN generic_err_msgs[class_to_index(error_class) + 1].long_name
    ELSE UnknownClassStr

\* The entry a walk reads at ring_idx (the index field of a code holds
\* ERROR_SPECIFIC_INDEX_SIZE values, as many as the ring of the source)
EntryAt(ring, ring_idx) ==
    IF ring_idx \in DOMAIN ring THEN ring[ring_idx] ELSE ZeroEntry

MutEntryMatchesAlways(ring, c) == TRUE

\* ErrorRing[ring_idx].id == ring_id
EntryMatches(ring, c) == EntryAt(ring, c.ring_idx).id = c.ring_id

\* A walk that visits more entries than the ring holds visits an entry
\* twice and never ends
WalkFuel == MAX_ERROR_RING + 1

RECURSIVE WalkDiverges(_, _, _, _)
WalkDiverges(errcode, ring, maxloc, fuel) ==
    LET c == convertErrcodeToIndexes(errcode, maxloc) IN
    IF errcode = MPI_SUCCESS \/ c.rc # 0 \/ c.generic_idx < 0
       \/ ~EntryMatches(ring, c)
    THEN FALSE
    ELSE IF fuel = 0 THEN TRUE
    ELSE WalkDiverges(EntryAt(ring, c.ring_idx).prev_error, ring, maxloc,
                      fuel - 1)

RECURSIVE StackLocationLen(_, _, _, _, _)
\* Lines 1088-1115: the longest location of the chain
StackLocationLen(tmp_errcode, ring, maxloc, max_location_len, fuel) ==
    LET c == convertErrcodeToIndexes(tmp_errcode, maxloc) IN
    IF tmp_errcode = MPI_SUCCESS \/ c.rc # 0 \/ c.generic_idx < 0
       \/ ~EntryMatches(ring, c) \/ fuel = 0
    THEN max_location_len
    ELSE StackLocationLen(EntryAt(ring, c.ring_idx).prev_error, ring, maxloc,
                          Max(max_location_len,
                              Len(EntryAt(ring, c.ring_idx).location)),
                          fuel - 1)

\* n copies of character ch
Repeat(ch, n) == [i \in 1 .. n |-> ch]

\* Lines 1134-1192: the line of one entry written into maxlen characters
StackLine(entry, max_location_len, maxlen) ==
    LET loc == Truncate(entry.location, maxlen)
        m1 == maxlen - Len(loc)
        nchrs == Max(0, Min(max_location_len - Len(entry.location) - 2, m1))
        m2 == m1 - nchrs
        colon == IF m2 > 0 THEN <<58>> ELSE <<>>
        m3 == m2 - Len(colon)
        space == IF m3 > 0 THEN <<32>> ELSE <<>>
        m4 == m3 - Len(space)
        msg == Truncate(entry.msg \o <<10>>, m4)
    IN  [str |-> loc \o Repeat(46, nchrs) \o colon \o space \o msg,
         maxlen |-> m4 - Len(msg)]

RECURSIVE StackLines(_, _, _, _, _, _)
\* Lines 1117-1200: the lines of the chain, the ring indexes of the entries
\* the walk visits and the code the walk ends at
StackLines(errcode, ring, maxloc, max_location_len, maxlen, fuel) ==
    LET c == convertErrcodeToIndexes(errcode, maxloc) IN
    IF errcode = MPI_SUCCESS \/ c.generic_idx < 0 \/ ~EntryMatches(ring, c)
       \/ fuel = 0
    THEN [str |-> <<>>, maxlen |-> maxlen, errcode |-> errcode,
          visited |-> <<>>]
    ELSE LET line == StackLine(EntryAt(ring, c.ring_idx), max_location_len,
                               maxlen)
             rest == StackLines(EntryAt(ring, c.ring_idx).prev_error, ring,
                                maxloc, max_location_len, line.maxlen,
                                fuel - 1)
         IN  [rest EXCEPT !.str = line.str \o rest.str,
                          !.visited = <<c.ring_idx>> \o rest.visited]

\* Lines 1208-1248: the line of a code the walk could not follow
StackFallback(errcode, maxlen) ==
    LET generic_idx == GenericField(errcode) - 1
        error_class == ERROR_GET_CLASS(errcode)
    IN  IF generic_idx >= 0
        THEN Truncate(UnknownStr
                        \o generic_err_msgs[generic_idx + 1].long_name
                        \o <<10>>, maxlen)
        ELSE IF error_class <= MPICH_ERR_LAST_MPIX
        THEN Truncate(UnknownStr \o get_class_msg(error_class) \o <<10>>,
                      maxlen)
        ELSE Truncate(InvalidClassStr \o Digits(error_class) \o <<41, 10>>,
                      maxlen)

\* MPIR_Err_print_stack_string: the lines, else the fallback line, without
\* the last character written (lines 1250-1254)
MPIR_Err_print_stack_string(errcode, ring, maxloc, maxlen) ==
    LET max_location_len ==
            StackLocationLen(errcode, ring, maxloc, 0, WalkFuel) + 2
        w == StackLines(errcode, ring, maxloc, max_location_len, maxlen,
                        WalkFuel)
        str == IF w.errcode = MPI_SUCCESS THEN w.str
               ELSE w.str \o StackFallback(w.errcode, w.maxlen)
    IN  IF str = <<>> THEN str ELSE SubSeq(str, 1, Len(str) - 1)

\* ErrGetInstanceString, lines 1959-1968
ErrGetInstanceString(errorcode, ring, maxloc, num_remaining) ==
    LET head == Truncate(ErrorStackStr, num_remaining)
    IN  Truncate(head \o MPIR_Err_print_stack_string(errorcode, ring, maxloc,
                                                     num_remaining - Len(head)),
                 num_remaining)

\* The text of a code that needs no ring entry: a dynamic code (no
\* errcode_to_string function is set here) or a class
ClassString(errorcode, length) ==
    IF DynBit(errorcode)
    THEN Truncate(UndefinedDynamicStr, length)
    ELSE Truncate(get_class_msg(errorcode), length)

\* MPIR_Err_get_string
MPIR_Err_get_string(errorcode, ring, maxloc, length) ==
    IF length = 0 THEN <<>>
    ELSE IF DynBit(errorcode) \/ ERROR_GET_CLASS(errorcode) = errorcode
    THEN ClassString(errorcode, length)
    ELSE LET msg == Truncate(get_class_msg(ERROR_GET_CLASS(errorcode)), length)
         IN  msg \o ErrGetInstanceString(errorcode, ring, maxloc,
                                         length - Len(msg))

(***************************************************************************)
(* MPIR_Err_get_string byte by byte, for any MPIR_CVAR_PRINT_ERROR_STACK   *)
(* and MPIR_CVAR_CHOP_ERROR_STACK.  The destination is the caller's buffer *)
(* of length bytes, positions 0 .. length - 1; a cursor holds besides the  *)
(* fields of the renderer's cursor the value `beyond`: what strlen yields  *)
(* for the bytes behind the buffer, which no model of the program knows.   *)
(***************************************************************************)
\* The cursor at the start of a buffer of length bytes
TextCursor(length, beyond) ==
    [buf |-> [i \in 0 .. length - 1 |-> 0], str |-> 0, maxlen |-> length,
     written |-> {}, beyond |-> beyond, wraps |-> <<>>]

\* str += n; maxlen -= n
Advance(cur, n) == [cur EXCEPT !.str = cur.str + n, !.maxlen = cur.maxlen - n]

\* snprintf(str, size, "%s", text): no byte for size 0, the whole text and
\* a 0 for a negative size (size_t: larger than any text), else size - 1
\* characters at most and a 0
Snprintf(cur, size, text) ==
    IF size = 0 THEN cur
    ELSE IF size < 0 THEN Poke(cur, text \o <<0>>)
    ELSE Poke(cur, SubSeq(text, 1, Min(Len(text), size - 1)) \o <<0>>)

\* strlen(str): the bytes up to the first 0 of the buffer from str on, and
\* the bytes behind the buffer when the buffer holds no 0 from str on
StrLenAt(cur) ==
    LET zeros == {i \in DOMAIN cur.buf : i >= cur.str /\ cur.buf[i] = 0}
        last == Cardinality(DOMAIN cur.buf)
    IN  IF zeros # {}
        THEN (CHOOSE i \in zeros : \A j \in zeros : i <= j) - cur.str
        ELSE Max(last - cur.str, 0) + cur.beyond

\* snprintf(str, maxlen, "%s", text); len = strlen(str); maxlen -= len;
\* str += len
SnprintfSkip(cur, text) ==
    LET c == Snprintf(cur, cur.maxlen, text) IN Advance(c, StrLenAt(c))

\* *str++ = ch; maxlen--
PutChar(cur, ch) == Advance(Poke(cur, <<ch>>), 1)

\* msg[num_remaining - 1] = '\0' for msg = str and num_remaining = maxlen
EndAtLast(cur) ==
    [Poke([cur EXCEPT !.str = cur.str + cur.maxlen - 1], <<0>>)
       EXCEPT !.str = cur.str]

RECURSIVE PadLine(_, _)
\* Lines 1169-1173: snprintf(str, maxlen, " "); maxlen--; str++, i times
PadLine(cur, i) ==
    IF i = 0 THEN cur
    ELSE PadLine(Advance(Snprintf(cur, cur.maxlen, <<32>>), 1), i - 1)

RECURSIVE ChopLoop(_, _, _, _)
\* Lines 1154-1183: the loop that writes the message from cur_pos on in
\* pieces of MPIR_CVAR_CHOP_ERROR_STACK - 1 - max_location_len characters.
\* wraps holds, for every piece written, the number of characters of the
\* message the piece took
ChopLoop(cur, cur_pos, max_location_len, chop) ==
    LET len == Len(cur_pos)
        piece == chop - 1 - max_location_len
        cut == Snprintf(cur, piece, cur_pos)
        nl == Poke([cut EXCEPT !.str = cut.str + piece], <<10>>)
        next == Advance([nl EXCEPT !.str = cut.str], piece + 1)
        rest == SubSeq(cur_pos, piece + 1, len)
        Wrapped(c) == [c EXCEPT !.wraps = Append(c.wraps, len - Len(rest))]
    IN  IF len = 0 THEN cur
        ELSE IF len >= chop - max_location_len
        THEN IF len > cur.maxlen THEN cur
             ELSE IF next.maxlen < max_location_len
             THEN Wrapped(next)
             ELSE ChopLoop(Wrapped(PadLine(next, max_location_len)), rest,
                           max_location_len, chop)
        ELSE SnprintfSkip(cur, cur_pos \o <<10>>)

\* Lines 1134-1192: the line of one entry
RenderLine(cur, entry, max_location_len, chop) ==
    LET loc == SnprintfSkip(cur, entry.location)
        nchrs == Min(Max(max_location_len - Len(entry.location) - 2, 0),
                     Max(loc.maxlen, 0))
        dots == Advance(Poke(loc, Repeat(46, nchrs)), nchrs)
        colon == IF dots.maxlen > 0 THEN PutChar(dots, 58) ELSE dots
        space == IF colon.maxlen > 0 THEN PutChar(colon, 32) ELSE colon
    IN  IF chop > 0
        THEN ChopLoop(IF entry.msg = <<>> /\ space.maxlen > 0
                      THEN PutChar(space, 10) ELSE space,
                      entry.msg, max_location_len, chop)
        ELSE SnprintfSkip(space, entry.msg \o <<10>>)

RECURSIVE RenderLines(_, _, _, _, _, _, _)
\* Lines 1117-1200: the lines of the chain and the code the walk ends at
RenderLines(cur, errcode, ring, maxloc, max_location_len, chop, fuel) ==
    LET c == convertErrcodeToIndexes(errcode, maxloc) IN
    IF errcode = MPI_SUCCESS \/ c.generic_idx < 0 \/ ~EntryMatches(ring, c)
       \/ fuel = 0
    THEN [cur |-> cur, errcode |-> errcode]
    ELSE RenderLines(RenderLine(cur, EntryAt(ring, c.ring_idx),
                                max_location_len, chop),
                     EntryAt(ring, c.ring_idx).prev_error, ring, maxloc,
                     max_location_len, chop, fuel - 1)

\* MPIR_Err_print_stack_string(errcode, str, maxlen): the lines, else the
\* fallback line, and the 0 in place of the last character (lines 1250-1254)
PrintStackBytes(cur, errcode, ring, maxloc, chop) ==
    LET max_location_len ==
            StackLocationLen(errcode, ring, maxloc, 0, WalkFuel) + 2
        w == RenderLines(cur, errcode, ring, maxloc, max_location_len, chop,
                         WalkFuel)
        end == IF w.errcode = MPI_SUCCESS THEN w.cur
               ELSE SnprintfSkip(w.cur,
                                 StackFallback(w.errcode, MAX_ERRMSG_STRING))
    IN  IF end.str = cur.str THEN end
        ELSE Poke([end EXCEPT !.str = end.str - 1], <<0>>)

MutFirstMessage(cur, errorcode, ring, maxloc, fuel) ==
    LET c == convertErrcodeToIndexes(errorcode, maxloc) IN
    IF errorcode = MPI_SUCCESS \/ c.rc # 0 \/ c.generic_idx < 0
       \/ ~EntryMatches(ring, c) \/ fuel = 0
    THEN cur
    ELSE EndAtLast(Snprintf(cur, cur.maxlen, <<44, 32>> \o ring[c.ring_idx].msg))

RECURSIVE LastMessage(_, _, _, _, _)
\* Lines 1971-1997: snprintf(msg, num_remaining, ", %s", ...) and
\* msg[num_remaining - 1] = '\0' for each entry of the chain, at one and
\* the same position msg
LastMessage(cur, errorcode, ring, maxloc, fuel) ==
    LET c == convertErrcodeToIndexes(errorcode, maxloc) IN
    IF errorcode = MPI_SUCCESS \/ c.rc # 0 \/ c.generic_idx < 0
       \/ ~EntryMatches(ring, c) \/ fuel = 0
    THEN cur
    ELSE LastMessage(EndAtLast(Snprintf(cur, cur.maxlen,
                                        <<44, 32>> \o ring[c.ring_idx].msg)),
                     ring[c.ring_idx].prev_error, ring, maxloc, fuel - 1)

\* ErrGetInstanceString(errorcode, msg, num_remaining)
InstanceBytes(cur, errorcode, ring, maxloc, print, chop) ==
    IF print
    THEN LET head == EndAtLast(PutString(cur, ErrorStackStr))
             at == Advance(head, StrLenAt(head))
         IN  EndAtLast([PrintStackBytes(at, errorcode, ring, maxloc, chop)
                          EXCEPT !.str = at.str, !.maxlen = at.maxlen])
    ELSE LastMessage(cur, errorcode, ring, maxloc, WalkFuel)

\* MPIR_Err_get_string(errorcode, msg, length, NULL)
GetStringBytes(errorcode, length, beyond, ring, maxloc, print, chop) ==
    LET cur == TextCursor(length, beyond)
        class == EndAtLast(PutString(cur,
                               get_class_msg(ERROR_GET_CLASS(errorcode))))
    IN  IF length = 0 THEN cur
        ELSE IF DynBit(errorcode) THEN PutString(cur, UndefinedDynamicStr)
        ELSE IF ERROR_GET_CLASS(errorcode) = errorcode
        THEN PutString(cur, get_class_msg(errorcode))
        ELSE InstanceBytes(Advance(class, StrLenAt(class)), errorcode, ring,
                           maxloc, print, chop)

(***************************************************************************)
(* The objects the MPIR_Err_return_xxx routines are called on.  Each       *)
(* object holds one error handler, which does not change while the model   *)
(* runs: setting handlers is the work of other files.  A handler is        *)
(* "NULL" (no handler), one of the four built-in handlers, or a user       *)
(* handler of language MPIR_LANG__C or MPIR_LANG__X.                       *)
(***************************************************************************)
Threads == {"t1", "t2"}

Handlers == {"NULL", "FATAL", "RETURN", "THROW", "ABORT", "USER_C", "USER_X"}

\* comm_ptr->errhandler of the communicators
CommHandler ==
    [cN |-> "NULL", cF |-> "FATAL", cR |-> "RETURN", cA |-> "ABORT",
     cUC |-> "USER_C", selfN |-> "NULL", selfUC |-> "USER_C",
     selfF |-> "FATAL", worldN |-> "NULL", worldR |-> "RETURN",
     worldUX |-> "USER_X"]

\* The communicators a caller may pass, MPIR_Process.comm_self and
\* MPIR_Process.comm_world once MPI is initialized
UserComms == {"NULL", "cN", "cF", "cR", "cA", "cUC"}
SelfComms == {"NULL", "selfN", "selfUC", "selfF"}
WorldComms == {"NULL", "worldN", "worldR", "worldUX"}

\* win_ptr->errhandler of the windows
WinHandler ==
    [wN |-> "NULL", wF |-> "FATAL", wT |-> "THROW", wUX |-> "USER_X"]

Wins == {"NULL"} \cup DOMAIN WinHandler

\* session_ptr->errhandler and the reference count of the sessions
SessionHandler ==
    [sN |-> "NULL", sA |-> "ABORT", sR |-> "RETURN", sUC |-> "USER_C",
     sReleased |-> "RETURN"]

SessionRef == [sN |-> 1, sA |-> 1, sR |-> 1, sUC |-> 1, sReleased |-> 0]

Sessions == {"NULL"} \cup DOMAIN SessionHandler

\* group_ptr->session_ptr of the groups
GroupSession == [gNone |-> "NULL", gR |-> "sR", gUC |-> "sUC", gN |-> "sN"]

Groups == {"NULL"} \cup DOMAIN GroupSession

VARIABLES
    ErrorRing,            \* MPIR_Err_msg_t ErrorRing[MAX_ERROR_RING]
    error_ring_loc,       \* the write cursor
    max_error_ring_loc,   \* the high-water mark
    did_err_init,         \* set by MPIR_Err_init
    mpich_state,          \* MPIR_Process.mpich_state
    error_ring_mutex,     \* "free" or the thread that locked it
    comm_mutex,           \* comm_ptr->mutex of every communicator
    comm_self,            \* MPIR_Process.comm_self
    comm_world,           \* MPIR_Process.comm_world
    pc,                   \* where each thread is
    lv,                   \* the local variables of each thread's call
    codes,                \* the error codes MPIR_Err_create_code returned
    ncreates,             \* MPIR_Err_create_code calls started
    ndispatches,          \* MPIR_Err_return_xxx calls started
    appends,              \* the arguments of the calls that fill the ring
    chain,                \* the codes a caller got back, in order (its mpi_errno)
    MPIR_CVAR_PRINT_ERROR_STACK,  \* the control variables of lines 28-45
    MPIR_CVAR_CHOP_ERROR_STACK,
    err_init_runs,        \* how often MPIR_Err_stack_init created the mutex
                          \* and set MPIR_CVAR_CHOP_ERROR_STACK
    aborted               \* "no", or the thread that called MPID_Abort

vars == <<ErrorRing, error_ring_loc, max_error_ring_loc, did_err_init,
          mpich_state, error_ring_mutex, comm_mutex, comm_self, comm_world,
          pc, lv, codes, ncreates, ndispatches, appends, chain,
          MPIR_CVAR_PRINT_ERROR_STACK, MPIR_CVAR_CHOP_ERROR_STACK,
          err_init_runs, aborted>>

ringVars == <<ErrorRing, error_ring_loc, max_error_ring_loc>>
objVars == <<comm_mutex, comm_self, comm_world>>
cvarVars == <<MPIR_CVAR_PRINT_ERROR_STACK, MPIR_CVAR_CHOP_ERROR_STACK>>
initVars == <<did_err_init, mpich_state, cvarVars, err_init_runs>>
countVars == <<ncreates, ndispatches>>

\* No access to the ring, no read of a handler, no call of a user handler
NoAccess == [where |-> "none", held |-> TRUE, init |-> TRUE, errinit |-> TRUE]
NoRead == [obj |-> "none", held |-> TRUE, any |-> FALSE]
NoCall == [language |-> "none", handle |-> "none", errcode |-> 0]

\* The local variables of a thread that is in no call.  access, hread and
\* cb record what the call did last: its latest access to the ring, its
\* latest read of an errhandler field, its call of a user handler; pre is
\* what a call found (the ring: entries, cursor, high-water mark; the
\* fields a code is made of), out what a decoder returned.
NoLocals ==
    [op |-> "none", lastcode |-> 0, fatal |-> FALSE, error_class |-> 0,
     generic_idx |-> -1, msg |-> <<>>, use_user_error_code |-> 0,
     user_error_code |-> -1, location |-> <<>>, ring_idx |-> 0,
     ring_seq |-> 0, entry |-> "none", obj |-> "NULL", errcode0 |-> 0,
     errcode |-> 0, comm_ptr |-> "NULL", errhandler |-> "NULL",
     was_init |-> TRUE, via_comm |-> FALSE, ret |-> 0,
     text |-> <<>>, access |-> NoAccess, hread |-> NoRead, cb |-> NoCall,
     pre |-> <<>>, out |-> <<>>, errorcode |-> 0]

\* MPIR_Errutil_is_initialized
MPIR_Errutil_is_initialized == mpich_state # "UNINITIALIZED"

(***************************************************************************)
(* error_ring_mutex_lock / error_ring_mutex_unlock (MPICH_IS_THREADED):    *)
(* both do nothing while did_err_init is unset.                            *)
(***************************************************************************)
MutLockAlways(t) ==
    /\ error_ring_mutex = "free"
    /\ error_ring_mutex' = t

error_ring_mutex_lock(t) ==
    IF did_err_init
    THEN /\ error_ring_mutex = "free"
         /\ error_ring_mutex' = t
    ELSE error_ring_mutex' = error_ring_mutex

\* Unlocking a mutex the thread did not lock is undefined: the mutex is
\* left as it is, or released.
error_ring_mutex_unlock(t) ==
    IF did_err_init
    THEN IF error_ring_mutex = t
         THEN error_ring_mutex' = "free"
         ELSE error_ring_mutex' \in {error_ring_mutex, "free"}
    ELSE error_ring_mutex' = error_ring_mutex

\* A record of an access to the ring made by thread t in routine `where`
Access(t, where) ==
    [where |-> where, held |-> error_ring_mutex = t, init |-> did_err_init,
     errinit |-> MPIR_Errutil_is_initialized]

(***************************************************************************)
(* MPIR_Err_init, run once by the thread that initializes MPI, and the end *)
(* of the initialization: the caller of MPIR_Err_init creates the built-in *)
(* communicators (or none) and sets mpich_state after it.                  *)
(***************************************************************************)
\* MPIR_Err_stack_init, lines 1768-1790 (no HAVE_WINDOWS_H).  It creates
\* error_ring_mutex; creating a mutex a thread holds is undefined: the
\* mutex is a new, free one, or it is left as it is.
MPIR_Err_stack_init ==
    /\ error_ring_mutex' \in {"free", error_ring_mutex}
    /\ MPIR_CVAR_CHOP_ERROR_STACK' = IF MPIR_CVAR_CHOP_ERROR_STACK < 0
                                     THEN 80
                                     ELSE MPIR_CVAR_CHOP_ERROR_STACK
    /\ err_init_runs' =
           [mutex |-> err_init_runs.mutex + 1,
            chop |-> err_init_runs.chop
                       + (IF MPIR_CVAR_CHOP_ERROR_STACK < 0 THEN 1 ELSE 0)]

\* MPIR_Err_init, lines 136-142: init_builtins (which sets the handles of
\* the built-in handlers, always to the same values), MPIR_Err_stack_init
\* and did_err_init = TRUE
ErrInit ==
    /\ aborted = "no"
    /\ MPIR_Err_stack_init
    /\ did_err_init' = TRUE
    /\ UNCHANGED <<appends, chain, ringVars, objVars, mpich_state,
                   MPIR_CVAR_PRINT_ERROR_STACK, pc, lv, codes, countVars,
                   aborted>>

\* The call of MPIR_Err_init the initialization of MPI makes
MPIR_Err_init ==
    /\ ~did_err_init
    /\ ErrInit

MpiInitDoneWith(selfs, worlds) ==
    /\ aborted = "no"
    /\ did_err_init
    /\ mpich_state = "UNINITIALIZED"
    /\ mpich_state' = "INITIALIZED"
    /\ comm_self' \in selfs
    /\ comm_world' \in worlds
    /\ UNCHANGED <<appends, chain, ringVars, comm_mutex, did_err_init, cvarVars,
                   err_init_runs, error_ring_mutex, pc, lv, codes, countVars,
                   aborted>>

\* In the specification of the ring both built-in communicators exist and
\* hold no handler
MpiInitDone == MpiInitDoneWith({"selfN"}, {"worldN"})

\* The return of a call: the locals are dropped, a created code is kept
Return(t) ==
    /\ aborted = "no"
    /\ pc[t] = "returned"
    /\ pc' = [pc EXCEPT ![t] = "idle"]
    /\ codes' = IF lv[t].op = "create" THEN codes \cup {lv[t].ret} ELSE codes
    /\ lv' = [lv EXCEPT ![t] = NoLocals]
    /\ UNCHANGED <<appends, chain, ringVars, objVars, initVars, error_ring_mutex, countVars,
                   aborted>>

(***************************************************************************)
(* MPIR_Err_create_code_valist                                             *)
(***************************************************************************)
MutEffectiveClassNoInherit(error_class, lastcode) == error_class

\* Lines 909-918: MPI_ERR_OTHER takes the class of lastcode when it is valid
EffectiveClass(error_class, lastcode) ==
    IF error_class = MPI_ERR_OTHER
    THEN IF ERROR_GET_CLASS(lastcode) > MPI_SUCCESS
            /\ ERROR_GET_CLASS(lastcode) <= MPICH_ERR_LAST_MPIX
         THEN ERROR_GET_CLASS(lastcode)
         ELSE MPI_ERR_OTHER
    ELSE error_class

\* Lines 934-957 and 993-1012: the text stored in the ring entry
RingMsg(generic_msg, generic_idx, specific_msg, use_user, user_code) ==
    LET specific_idx == FindSpecificMsgIndex(specific_msg)
        specific_fmt == IF specific_idx >= 0
                        THEN specific_err_msgs[specific_idx + 1].long_name
                        ELSE specific_msg
        user_ring_msg == Truncate(SnprintfD(specific_fmt, user_code),
                                  MPIR_MAX_ERROR_LINE + 1)
    IN  IF specific_msg # NULL_STR
        THEN IF use_user = 0
             THEN vsnprintf_mpi(MPIR_MAX_ERROR_LINE, specific_fmt)
             ELSE Truncate(user_ring_msg, MPIR_MAX_ERROR_LINE)
        ELSE IF generic_idx >= 0
             THEN Truncate(generic_err_msgs[generic_idx + 1].long_name,
                           MPIR_MAX_ERROR_LINE)
             ELSE Truncate(generic_msg, MPIR_MAX_ERROR_LINE)

\* Line 1046: snprintf(location, MAX_LOCATION_LEN, "%s(%d)", fcname, line)
Location(fcname, line) ==
    IF fcname # NULL_STR
    THEN Truncate(fcname \o <<40>> \o Digits(line) \o <<41>>, MAX_LOCATION_LEN)
    ELSE <<>>

\* Locals that keep a lastcode the check refused
MutCreateLocalsKeepsInvalid(lastcode0, fatal, error_class0, generic_msg, specific_msg, user_arg, fcname, line, ring, maxloc) ==
    LET generic_idx == FindGenericMsgIndex(generic_msg)
        is_user == generic_idx >= 0
                   /\ generic_err_msgs[generic_idx + 1].short_name = USER_KEY
        use_user == IF is_user THEN 1 ELSE 0
        user_code == IF is_user /\ specific_msg # NULL_STR
                     THEN user_arg ELSE -1
    IN  [NoLocals EXCEPT
           !.op = "create",
           !.lastcode = lastcode0,
           !.fatal = fatal,
           !.error_class = EffectiveClass(error_class0, lastcode0),
           !.generic_idx = generic_idx,
           !.use_user_error_code = use_user,
           !.user_error_code = user_code,
           !.msg = RingMsg(generic_msg, generic_idx, specific_msg, use_user,
                           user_code),
           !.location = Location(fcname, line)]

\* Lines 894-971, the locals of a call before it takes the lock
CreateLocals(lastcode0, fatal, error_class0, generic_msg, specific_msg, user_arg, fcname, line, ring, maxloc) ==
    LET reason == IF lastcode0 # MPI_SUCCESS
                  THEN checkErrcodeIsValid(lastcode0, ring, maxloc)
                  ELSE 0
        lastcode == IF reason # 0 THEN MPI_SUCCESS ELSE lastcode0
        generic_idx == FindGenericMsgIndex(generic_msg)
        is_user == generic_idx >= 0
                   /\ generic_err_msgs[generic_idx + 1].short_name = USER_KEY
        use_user == IF is_user THEN 1 ELSE 0
        user_code == IF is_user /\ specific_msg # NULL_STR
                     THEN user_arg ELSE -1
    IN  [NoLocals EXCEPT
           !.op = "create",
           !.lastcode = lastcode,
           !.fatal = fatal,
           !.error_class = EffectiveClass(error_class0, lastcode),
           !.generic_idx = generic_idx,
           !.use_user_error_code = use_user,
           !.user_error_code = user_code,
           !.msg = RingMsg(generic_msg, generic_idx, specific_msg, use_user,
                           user_code),
           !.location = Location(fcname, line)]

\* The inputs of the calls made while the threads race
CreateClasses == {MPI_ERR_BUFFER}
CreateGenerics == {<<42, 42, 102>>}
CreateSpecifics == {NULL_STR, <<97, 98>>}
CreateFatals == {FALSE}
CreateUserCodes == {77}
CreateFcname == <<103>>
CreateLine == 7

\* Lines 894-971: up to the lock.  The validation of lastcode reads the
\* ring (the high-water mark, the id of an entry) with no lock taken.
CreateBeginWith(t, limit, lastcodes, classes, generics, specifics, fatals) ==
    /\ aborted = "no"
    /\ pc[t] = "idle"
    /\ ncreates < limit
    /\ \E lastcode0 \in lastcodes, fatal \in fatals,
          error_class0 \in classes, generic_msg \in generics,
          specific_msg \in specifics, user_arg \in CreateUserCodes :
         LET l == CreateLocals(lastcode0, fatal, error_class0, generic_msg,
                               specific_msg, user_arg, CreateFcname,
                               CreateLine, ErrorRing, max_error_ring_loc)
             acc == IF lastcode0 # MPI_SUCCESS
                       /\ ~is_valid_error_class(lastcode0)
                    THEN Access(t, "checkErrcodeIsValid")
                    ELSE NoAccess
         IN  IF l.error_class = MPI_ERR_IN_STATUS
             THEN /\ pc' = [pc EXCEPT ![t] = "returned"]
                  /\ lv' = [lv EXCEPT ![t] =
                              [l EXCEPT !.ret = MPI_ERR_IN_STATUS,
                                        !.errcode0 = lastcode0,
                                        !.access = acc,
                                        !.pre = ringVars]]
             ELSE /\ pc' = [pc EXCEPT ![t] = "cc_lock"]
                  /\ lv' = [lv EXCEPT ![t] = [l EXCEPT !.errcode0 = lastcode0,
                                                       !.access = acc]]
    /\ ncreates' = ncreates + 1
    /\ UNCHANGED <<appends, chain, ringVars, objVars, initVars, error_ring_mutex, codes,
                   ndispatches, aborted>>

CreateBegin(t) ==
    CreateBeginWith(t, MaxCreates, {MPI_SUCCESS} \cup codes, CreateClasses,
                    CreateGenerics, CreateSpecifics, CreateFatals)

\* Line 980: error_ring_mutex_lock()
CreateLock(t) ==
    /\ aborted = "no"
    /\ pc[t] = "cc_lock"
    /\ error_ring_mutex_lock(t)
    /\ pc' = [pc EXCEPT ![t] = "cc_read"]
    /\ UNCHANGED <<appends, chain, ringVars, objVars, initVars, lv, codes, countVars, aborted>>

\* Line 984, the load of ring_idx = error_ring_loc++
CreateRead(t) ==
    /\ aborted = "no"
    /\ pc[t] = "cc_read"
    /\ lv' = [lv EXCEPT ![t].ring_idx = error_ring_loc,
                        ![t].access = Access(t, "create_code")]
    /\ pc' = [pc EXCEPT ![t] = "cc_write"]
    /\ UNCHANGED <<appends, chain, ringVars, objVars, initVars, error_ring_mutex, codes,
                   countVars, aborted>>

MutUserCodeCarryOwnOnly(l, ring, maxloc) ==
    IF l.use_user_error_code = 1
    THEN [use |-> 1, code |-> l.user_error_code]
    ELSE [use |-> 0, code |-> 0]

\* Lines 1020-1043: the user error code of the new entry, its own or the
\* one of the entry of lastcode; `ring` holds the new entry's id already.
UserCodeCarry(l, ring, maxloc) ==
    LET c == convertErrcodeToIndexes(l.lastcode, maxloc) IN
    IF l.use_user_error_code = 1
    THEN [use |-> 1, code |-> l.user_error_code]
    ELSE IF l.lastcode # MPI_SUCCESS /\ c.rc = 0 /\ c.generic_idx >= 0
            /\ ring[c.ring_idx].id = c.ring_id
            /\ ring[c.ring_idx].use_user_error_code = 1
         THEN [use |-> 1, code |-> ring[c.ring_idx].user_error_code]
         ELSE [use |-> 0, code |-> 0]

MutNextLocNoWrap(ring_idx) == ring_idx + 1

\* Lines 984-986: the cursor after the store of error_ring_loc++
NextLoc(ring_idx) ==
    IF ring_idx + 1 >= MAX_ERROR_RING
    THEN (ring_idx + 1) % MAX_ERROR_RING
    ELSE ring_idx + 1

MutFillEntryNoPrev(l, ring_idx, ring, maxloc) ==
    [ring EXCEPT ![ring_idx] =
       [ZeroEntry EXCEPT !.msg = l.msg, !.location = l.location,
                         !.id = ErrcodeCreateID(l.error_class, l.generic_idx,
                                                l.msg).id]]

\* An entry filled with no memset before: a slot that held a user error
\* code keeps it
MutFillEntryNoReset(l, ring_idx, ring, maxloc) ==
    LET cid == ErrcodeCreateID(l.error_class, l.generic_idx, l.msg)
        ring1 == [ring EXCEPT ![ring_idx].msg = l.msg,
                              ![ring_idx].id = cid.id,
                              ![ring_idx].prev_error = l.lastcode]
        u == UserCodeCarry(l, ring1, maxloc)
    IN  IF u.use = 1
        THEN [ring1 EXCEPT ![ring_idx].use_user_error_code = u.use,
                           ![ring_idx].user_error_code = u.code,
                           ![ring_idx].location = l.location]
        ELSE [ring1 EXCEPT ![ring_idx].location = l.location]

\* Lines 990-1050: the ring with the entry of the call written to ring_idx
FillEntry(l, ring_idx, ring, maxloc) ==
    LET cid == ErrcodeCreateID(l.error_class, l.generic_idx, l.msg)
        ring1 == [ring EXCEPT ![ring_idx] =
                    [ZeroEntry EXCEPT !.msg = l.msg, !.id = cid.id,
                                      !.prev_error = l.lastcode]]
        u == UserCodeCarry(l, ring1, maxloc)
    IN  [ring1 EXCEPT ![ring_idx].use_user_error_code = u.use,
                      ![ring_idx].user_error_code = u.code,
                      ![ring_idx].location = l.location]

\* Lines 984-1050: the store of error_ring_loc++, the high-water mark and
\* the entry
CreateWrite(t) ==
    /\ aborted = "no"
    /\ pc[t] = "cc_write"
    /\ LET ring_idx == lv[t].ring_idx
           newloc == NextLoc(ring_idx)
           newmax == Max(max_error_ring_loc, newloc)
       IN  /\ error_ring_loc' = newloc
           /\ max_error_ring_loc' = newmax
           /\ ErrorRing' = FillEntry(lv[t], ring_idx, ErrorRing, newmax)
           /\ lv' = [lv EXCEPT ![t].ring_seq =
                        ErrcodeCreateID(lv[t].error_class, lv[t].generic_idx,
                                        lv[t].msg).seq,
                               ![t].access = Access(t, "create_code")]
    /\ pc' = [pc EXCEPT ![t] = "cc_unlock"]
    /\ UNCHANGED <<appends, chain, objVars, initVars, error_ring_mutex, codes, countVars,
                   aborted>>

\* A return that leaves the sequence number of the message out of the code
MutCreatedCodeNoSeq(l) ==
    LET err_code == l.error_class
                    + (l.generic_idx + 1) * ERROR_GENERIC_SHIFT
                    + l.ring_idx * ERROR_SPECIFIC_INDEX_SHIFT
    IN  IF l.fatal \/ MPIR_Err_is_fatal(l.lastcode)
        THEN SetFatal(err_code)
        ELSE err_code

\* Lines 1066-1075: the error code returned
CreatedCode(l) ==
    LET err_code == l.error_class
                    + (l.generic_idx + 1) * ERROR_GENERIC_SHIFT
                    + l.ring_idx * ERROR_SPECIFIC_INDEX_SHIFT
                    + l.ring_seq * ERROR_SPECIFIC_SEQ_SHIFT
    IN  IF l.fatal \/ MPIR_Err_is_fatal(l.lastcode)
        THEN SetFatal(err_code)
        ELSE err_code

\* Lines 1064-1075: error_ring_mutex_unlock() and the return
CreateUnlock(t) ==
    /\ aborted = "no"
    /\ pc[t] = "cc_unlock"
    /\ error_ring_mutex_unlock(t)
    /\ pc' = [pc EXCEPT ![t] = "returned"]
    /\ lv' = [lv EXCEPT ![t].ret = CreatedCode(lv[t])]
    /\ UNCHANGED <<appends, chain, ringVars, objVars, initVars, codes, countVars, aborted>>

(***************************************************************************)
(* checkForUserErrcode, MPIR_call_errhandler and MPIR_Handle_fatal_error,  *)
(* the steps every MPIR_Err_return_xxx routine ends with.                  *)
(***************************************************************************)
\* Line 1868: error_ring_mutex_lock() of checkForUserErrcode
UserLock(t) ==
    /\ aborted = "no"
    /\ pc[t] = "user_lock"
    /\ error_ring_mutex_lock(t)
    /\ pc' = [pc EXCEPT ![t] = "user_body"]
    /\ UNCHANGED <<appends, chain, ringVars, objVars, initVars, lv, codes, countVars, aborted>>

\* Lines 1870-1887: the user error code of the entry, if it holds one
UserBody(t) ==
    /\ aborted = "no"
    /\ pc[t] = "user_body"
    /\ lv' = [lv EXCEPT
                ![t].errcode = UserErrcodeOf(lv[t].errcode, ErrorRing,
                                             max_error_ring_loc),
                ![t].access = IF lv[t].errcode # MPI_SUCCESS
                              THEN Access(t, "checkForUserErrcode")
                              ELSE lv[t].access]
    /\ pc' = [pc EXCEPT ![t] = "user_unlock"]
    /\ UNCHANGED <<appends, chain, ringVars, objVars, initVars, error_ring_mutex, codes,
                   countVars, aborted>>

MutUserUnlockKeepsLock(t) ==
    /\ aborted = "no"
    /\ pc[t] = "user_unlock"
    /\ pc' = [pc EXCEPT ![t] = "call"]
    /\ UNCHANGED <<appends, chain, ringVars, objVars, initVars, error_ring_mutex, lv, codes,
                   countVars, aborted>>

\* Line 1889: error_ring_mutex_unlock() of checkForUserErrcode
UserUnlock(t) ==
    /\ aborted = "no"
    /\ pc[t] = "user_unlock"
    /\ error_ring_mutex_unlock(t)
    /\ pc' = [pc EXCEPT ![t] = "call"]
    /\ UNCHANGED <<appends, chain, ringVars, objVars, initVars, lv, codes, countVars, aborted>>

MutReleaseCommNever(t) == comm_mutex' = comm_mutex

\* The communicator lock the thread holds (lines 310-331), released at the
\* return of MPIR_Err_return_comm
ReleaseComm(t) ==
    IF lv[t].via_comm
    THEN comm_mutex' = [comm_mutex EXCEPT ![lv[t].comm_ptr] = "free"]
    ELSE comm_mutex' = comm_mutex

\* The handle h passed to the user handler
HandleOf(l) ==
    IF l.via_comm THEN l.comm_ptr
    ELSE IF l.entry = "session_init" THEN "MPI_SESSION_NULL"
    ELSE IF l.entry = "comm_create_from_group" THEN "MPI_COMM_NULL"
    ELSE IF l.entry = "group" THEN GroupSession[l.obj]
    ELSE l.obj

MutCallReturnsSuccess(t) ==
    /\ aborted = "no"
    /\ pc[t] = "call"
    /\ pc' = [pc EXCEPT ![t] = "returned"]
    /\ lv' = [lv EXCEPT ![t].ret = MPI_SUCCESS]
    /\ ReleaseComm(t)
    /\ UNCHANGED <<appends, chain, ringVars, comm_self, comm_world, initVars,
                   error_ring_mutex, codes, countVars, aborted>>

\* MPIR_call_errhandler, lines 185-243: MPI_ERRORS_RETURN and
\* MPIR_ERRORS_THROW_EXCEPTIONS return the code (and the caller returns it,
\* lines 329-332); a user handler is called.
Call(t) ==
    /\ aborted = "no"
    /\ pc[t] = "call"
    /\ IF lv[t].errhandler \in {"RETURN", "THROW"}
       THEN /\ pc' = [pc EXCEPT ![t] = "returned"]
            /\ lv' = [lv EXCEPT ![t].ret = lv[t].errcode]
            /\ ReleaseComm(t)
       ELSE /\ pc' = [pc EXCEPT ![t] = "callback"]
            /\ lv' = [lv EXCEPT ![t].cb =
                        [language |-> IF lv[t].errhandler = "USER_C"
                                      THEN "MPIR_LANG__C" ELSE "MPIR_LANG__X",
                         handle |-> HandleOf(lv[t]),
                         errcode |-> lv[t].errcode]]
            /\ UNCHANGED comm_mutex
    /\ UNCHANGED <<appends, chain, ringVars, comm_self, comm_world, initVars,
                   error_ring_mutex, codes, countVars, aborted>>

\* The values errorcode holds when the user handler returns: a C handler
\* is passed &errorcode (lines 212-214) and leaves it alone or stores a
\* code of its own; an X handler is passed the value (lines 225-231)
CallbackWrites(l) ==
    IF l.cb.language = "MPIR_LANG__C"
    THEN {l.cb.errcode, MPI_ERR_INTERN}
    ELSE {l.cb.errcode}

\* A call that returns what the handler left in errorcode
MutCallbackReturnsWritten(t) ==
    /\ aborted = "no"
    /\ pc[t] = "callback"
    /\ pc' = [pc EXCEPT ![t] = "returned"]
    /\ \E errorcode \in CallbackWrites(lv[t]) :
         lv' = [lv EXCEPT ![t].ret = errorcode, ![t].errorcode = errorcode]
    /\ ReleaseComm(t)
    /\ UNCHANGED <<appends, chain, ringVars, comm_self, comm_world, initVars,
                   error_ring_mutex, codes, countVars, aborted>>

\* The user handler returns: MPIR_call_errhandler returns mpi_errno, which
\* is MPI_SUCCESS (lines 183, 246) whatever errorcode holds, and the caller
\* returns it.
CallbackReturn(t) ==
    /\ aborted = "no"
    /\ pc[t] = "callback"
    /\ pc' = [pc EXCEPT ![t] = "returned"]
    /\ \E errorcode \in CallbackWrites(lv[t]) :
         LET mpi_errno == MPI_SUCCESS IN
           lv' = [lv EXCEPT ![t].ret = mpi_errno, ![t].errorcode = errorcode]
    /\ ReleaseComm(t)
    /\ UNCHANGED <<appends, chain, ringVars, comm_self, comm_world, initVars,
                   error_ring_mutex, codes, countVars, aborted>>

\* MPIR_Err_get_string, lines 726-768: the text of a dynamic code and of a
\* bare class is built without the ring
FatalNeedsRing(errcode) ==
    ~DynBit(errcode) /\ ERROR_GET_CLASS(errcode) # errcode

\* MPIR_Handle_fatal_error, lines 599-604, for a code whose text needs no
\* ring entry: MPID_Abort; else the error_ring_mutex_lock() of line 1085
\* (or line 1970)
FatalBegin(t) ==
    /\ aborted = "no"
    /\ pc[t] = "fatal"
    /\ IF FatalNeedsRing(lv[t].errcode)
       THEN /\ error_ring_mutex_lock(t)
            /\ pc' = [pc EXCEPT ![t] = "fatal_walk"]
            /\ UNCHANGED aborted
            /\ UNCHANGED lv
       ELSE /\ aborted' = t
            /\ pc' = [pc EXCEPT ![t] = "aborted"]
            /\ lv' = [lv EXCEPT ![t].text =
                        ClassString(lv[t].errcode, MAX_ERRMSG_STRING)]
            /\ UNCHANGED error_ring_mutex
    /\ UNCHANGED <<appends, chain, ringVars, objVars, initVars, codes, countVars>>

\* Lines 1087-1200 (or 1972-1998): the walk along the entries of the code
FatalWalk(t) ==
    /\ aborted = "no"
    /\ pc[t] = "fatal_walk"
    /\ IF WalkDiverges(lv[t].errcode, ErrorRing, max_error_ring_loc, WalkFuel)
       THEN /\ pc' = [pc EXCEPT ![t] = "hung"]
            /\ lv' = [lv EXCEPT
                        ![t].access = Access(t, "MPIR_Err_get_string")]
       ELSE /\ pc' = [pc EXCEPT ![t] = "fatal_unlock"]
            /\ lv' = [lv EXCEPT
                        ![t].access = Access(t, "MPIR_Err_get_string"),
                        ![t].text = MPIR_Err_get_string(lv[t].errcode,
                                        ErrorRing, max_error_ring_loc,
                                        MAX_ERRMSG_STRING)]
    /\ UNCHANGED <<appends, chain, ringVars, objVars, initVars, error_ring_mutex, codes,
                   countVars, aborted>>

\* Line 1202 (or 2000): error_ring_mutex_unlock(), then MPID_Abort
FatalUnlock(t) ==
    /\ aborted = "no"
    /\ pc[t] = "fatal_unlock"
    /\ error_ring_mutex_unlock(t)
    /\ aborted' = t
    /\ pc' = [pc EXCEPT ![t] = "aborted"]
    /\ UNCHANGED <<appends, chain, ringVars, objVars, initVars, lv, codes, countVars>>

(***************************************************************************)
(* MPIR_Err_get_string called for the text of a code (MPI_Error_string)    *)
(***************************************************************************)
\* The codes whose text is asked for
GetStringCodes == {MPI_ERR_BUFFER, MPI_ERR_BUFFER + ERROR_DYN_MASK} \cup codes

\* Lines 698-760: the text of a class or of a dynamic code; else the
\* error_ring_mutex_lock() of MPIR_Err_print_stack_string, line 1085
GetStringBegin(t) ==
    /\ aborted = "no"
    /\ pc[t] = "idle"
    /\ \E errorcode \in GetStringCodes :
         LET l == [NoLocals EXCEPT !.op = "get_string",
                                   !.errcode0 = errorcode,
                                   !.errcode = errorcode]
         IN  IF FatalNeedsRing(errorcode)
             THEN /\ error_ring_mutex_lock(t)
                  /\ pc' = [pc EXCEPT ![t] = "gs_walk"]
                  /\ lv' = [lv EXCEPT ![t] = l]
             ELSE /\ pc' = [pc EXCEPT ![t] = "returned"]
                  /\ lv' = [lv EXCEPT ![t] =
                              [l EXCEPT !.text =
                                 ClassString(errorcode, MAX_ERRMSG_STRING)]]
                  /\ UNCHANGED error_ring_mutex
    /\ UNCHANGED <<appends, chain, ringVars, objVars, initVars, codes, countVars,
                   aborted>>

\* Lines 1087-1200: the walk along the chain; it never ends on a chain
\* that leads back to one of its entries
GetStringWalk(t) ==
    /\ aborted = "no"
    /\ pc[t] = "gs_walk"
    /\ IF WalkDiverges(lv[t].errcode, ErrorRing, max_error_ring_loc, WalkFuel)
       THEN /\ pc' = [pc EXCEPT ![t] = "hung"]
            /\ lv' = [lv EXCEPT
                        ![t].access = Access(t, "MPIR_Err_get_string")]
       ELSE /\ pc' = [pc EXCEPT ![t] = "gs_unlock"]
            /\ lv' = [lv EXCEPT
                        ![t].access = Access(t, "MPIR_Err_get_string"),
                        ![t].text = MPIR_Err_get_string(lv[t].errcode,
                                        ErrorRing, max_error_ring_loc,
                                        MAX_ERRMSG_STRING)]
    /\ UNCHANGED <<appends, chain, ringVars, objVars, initVars, error_ring_mutex,
                   codes, countVars, aborted>>

\* Line 1202: error_ring_mutex_unlock(); the fallback line and the return
GetStringUnlock(t) ==
    /\ aborted = "no"
    /\ pc[t] = "gs_unlock"
    /\ error_ring_mutex_unlock(t)
    /\ pc' = [pc EXCEPT ![t] = "returned"]
    /\ UNCHANGED <<appends, chain, ringVars, objVars, initVars, lv, codes, countVars,
                   aborted>>

(***************************************************************************)
(* The MPIR_Err_return_xxx routines up to their first step on shared       *)
(* state.  Each yields the locals of the call and where it goes next.      *)
(***************************************************************************)
Go(next, errcode, comm_ptr, errhandler, hread, via_comm) ==
    [next |-> next, errcode |-> errcode, comm_ptr |-> comm_ptr,
     errhandler |-> errhandler, hread |-> hread, via_comm |-> via_comm]

\* A read of the errhandler field of obj, made with no lock taken
UnlockedRead(obj) == [obj |-> obj, held |-> FALSE, any |-> TRUE]

\* MPIR_Err_return_comm, lines 254-268
MutCommEnterNoInitCheck(comm_ptr, errcode_in, hread, init) ==
    Go(IF comm_ptr = "NULL" THEN "comm_fb" ELSE "comm_own",
       checkValidErrcode(ERROR_GET_CLASS(errcode_in), errcode_in),
       comm_ptr, "NULL", hread, TRUE)

ReturnCommEnter(comm_ptr, errcode_in, hread, init) ==
    LET errcode == checkValidErrcode(ERROR_GET_CLASS(errcode_in), errcode_in)
    IN  IF ~init
        THEN Go("fatal", errcode, comm_self, "NULL", hread, FALSE)
        ELSE Go(IF comm_ptr = "NULL" THEN "comm_fb" ELSE "comm_own",
                errcode, comm_ptr, "NULL", hread, TRUE)

\* Lines 355-361, 425-431, 481-487, 546-552: the fatal path, or on to
\* checkForUserErrcode
FatalOrCall(errcode, errhandler, hread) ==
    IF MPIR_Err_is_fatal(errcode) \/ errhandler \in {"FATAL", "ABORT"}
    THEN Go("fatal", errcode, "NULL", errhandler, hread, FALSE)
    ELSE Go("user_lock", errcode, "NULL", errhandler, hread, FALSE)

\* MPIR_Err_return_win, lines 338-361
ReturnWinEnter(win_ptr, errcode_in, init) ==
    IF win_ptr = "NULL"
    THEN ReturnCommEnter("NULL", errcode_in, NoRead, init)
    ELSE IF WinHandler[win_ptr] = "NULL"
    THEN ReturnCommEnter("NULL", errcode_in, UnlockedRead(win_ptr), init)
    ELSE FatalOrCall(checkValidErrcode(ERROR_GET_CLASS(errcode_in), errcode_in),
                     WinHandler[win_ptr], UnlockedRead(win_ptr))

\* MPIR_Err_return_session, lines 378-431
ReturnSessionEnter(session_ptr, errcode_in, init) ==
    LET errcode == checkValidErrcode(ERROR_GET_CLASS(errcode_in), errcode_in)
    IN  IF ~init
        THEN Go("fatal", errcode, "NULL", "NULL", NoRead, FALSE)
        ELSE IF session_ptr = "NULL"
        THEN ReturnCommEnter("NULL", errcode, NoRead, init)
        ELSE IF SessionRef[session_ptr] <= 0
        THEN ReturnCommEnter("NULL", errcode, NoRead, init)
        ELSE IF SessionHandler[session_ptr] = "NULL"
        THEN ReturnCommEnter("NULL", errcode, UnlockedRead(session_ptr), init)
        ELSE FatalOrCall(errcode, SessionHandler[session_ptr],
                         UnlockedRead(session_ptr))

MutSessionInitNoEarlyReturn(errhandler_ptr, errcode_in, init) ==
    LET errcode == checkValidErrcode(ERROR_GET_CLASS(errcode_in), errcode_in)
    IN  IF ~init
        THEN Go("fatal", errcode, "NULL", errhandler_ptr, NoRead, FALSE)
        ELSE IF errhandler_ptr = "NULL"
        THEN ReturnCommEnter("NULL", errcode, NoRead, init)
        ELSE FatalOrCall(errcode, errhandler_ptr, NoRead)

\* MPIR_Err_return_session_init, lines 445-487
ReturnSessionInitEnter(errhandler_ptr, errcode_in, init) ==
    LET errcode == checkValidErrcode(ERROR_GET_CLASS(errcode_in), errcode_in)
    IN  IF errhandler_ptr \in {"RETURN", "THROW"}
        THEN Go("returned", errcode, "NULL", errhandler_ptr, NoRead, FALSE)
        ELSE IF ~init
        THEN Go("fatal", errcode, "NULL", errhandler_ptr, NoRead, FALSE)
        ELSE IF errhandler_ptr = "NULL"
        THEN ReturnCommEnter("NULL", errcode, NoRead, init)
        ELSE FatalOrCall(errcode, errhandler_ptr, NoRead)

MutGroupIgnoresSession(group_ptr, errcode_in, init) ==
    ReturnCommEnter("NULL", errcode_in, NoRead, init)

\* MPIR_Err_return_group, lines 501-513
ReturnGroupEnter(group_ptr, errcode_in, init) ==
    IF group_ptr = "NULL"
    THEN ReturnCommEnter("NULL", errcode_in, NoRead, init)
    ELSE IF GroupSession[group_ptr] = "NULL"
    THEN ReturnCommEnter("NULL", errcode_in, NoRead, init)
    ELSE ReturnSessionEnter(GroupSession[group_ptr], errcode_in, init)

\* A routine that returns under MPI_ERRORS_RETURN before any other test
MutCommCreateReturnsEarly(errhandler_ptr, errcode_in, init) ==
    ReturnSessionInitEnter(errhandler_ptr, errcode_in, init)

\* MPIR_Err_return_comm_create_from_group, lines 516-552
ReturnCommCreateFromGroupEnter(errhandler_ptr, errcode_in, init) ==
    LET errcode == checkValidErrcode(ERROR_GET_CLASS(errcode_in), errcode_in)
    IN  IF ~init
        THEN Go("fatal", errcode, "NULL", errhandler_ptr, NoRead, FALSE)
        ELSE IF errhandler_ptr = "NULL"
        THEN ReturnCommEnter("NULL", errcode, NoRead, init)
        ELSE FatalOrCall(errcode, errhandler_ptr, NoRead)

\* The entry points and the objects each is called on
Entries == {"comm", "win", "session", "session_init", "group",
            "comm_create_from_group"}

ObjectsOf(entry) ==
    CASE entry = "comm" -> UserComms
      [] entry = "win" -> Wins
      [] entry = "session" -> Sessions
      [] entry = "group" -> Groups
      [] OTHER -> Handlers

Enter(entry, obj, errcode_in, init) ==
    CASE entry = "comm" -> ReturnCommEnter(obj, errcode_in, NoRead, init)
      [] entry = "win" -> ReturnWinEnter(obj, errcode_in, init)
      [] entry = "session" -> ReturnSessionEnter(obj, errcode_in, init)
      [] entry = "session_init" -> ReturnSessionInitEnter(obj, errcode_in, init)
      [] entry = "group" -> ReturnGroupEnter(obj, errcode_in, init)
      [] OTHER -> ReturnCommCreateFromGroupEnter(obj, errcode_in, init)

\* The error codes the routines are called with, besides the codes created:
\* a class, a class with the fatal bit, a dynamic code with the fatal bit,
\* an invalid class above both ranges (alone, and in a code with a generic
\* index), an invalid class between the two ranges
DispatchCodes ==
    {MPI_ERR_BUFFER, MPI_ERR_BUFFER + ERROR_FATAL_MASK,
     ERROR_DYN_MASK + ERROR_FATAL_MASK + MPI_ERR_BUFFER,
     MPICH_ERR_LAST_MPIX + 1,
     MPICH_ERR_LAST_MPIX + 1 + 2 * ERROR_GENERIC_SHIFT,
     MPICH_ERR_FIRST_MPIX}

\* A call of an MPIR_Err_return_xxx routine.  A window exists only once
\* MPI is initialized (lines 345-346).
DispatchBeginWith(t, entries, objects, errcodes) ==
    /\ aborted = "no"
    /\ pc[t] = "idle"
    /\ \E entry \in entries, errcode_in \in errcodes :
         \E obj \in ObjectsOf(entry) \cap objects :
           /\ (entry = "win" /\ obj # "NULL") => MPIR_Errutil_is_initialized
           /\ LET g == Enter(entry, obj, errcode_in,
                             MPIR_Errutil_is_initialized)
              IN  /\ pc' = [pc EXCEPT ![t] = g.next]
                  /\ lv' = [lv EXCEPT ![t] =
                              [NoLocals EXCEPT
                                 !.op = "dispatch",
                                 !.entry = entry,
                                 !.obj = obj,
                                 !.errcode0 = errcode_in,
                                 !.errcode = g.errcode,
                                 !.comm_ptr = g.comm_ptr,
                                 !.errhandler = g.errhandler,
                                 !.hread = g.hread,
                                 !.via_comm = g.via_comm,
                                 !.was_init = MPIR_Errutil_is_initialized,
                                 !.ret = g.errcode,
                                 !.pre = ringVars]]
    /\ ndispatches' = ndispatches + 1
    /\ UNCHANGED <<appends, chain, ringVars, objVars, initVars, error_ring_mutex, codes,
                   ncreates, aborted>>

DispatchBegin(t) ==
    /\ ndispatches < MaxDispatches
    /\ DispatchBeginWith(t, Entries, UNION {ObjectsOf(e) : e \in Entries},
                         DispatchCodes \cup codes)

(***************************************************************************)
(* MPIR_Err_return_comm from line 274 on                                   *)
(***************************************************************************)
\* Line 275: MPID_THREAD_CS_ENTER(VCI, comm_ptr->mutex)
CommOwnLock(t) ==
    /\ aborted = "no"
    /\ pc[t] = "comm_own"
    /\ comm_mutex[lv[t].comm_ptr] = "free"
    /\ comm_mutex' = [comm_mutex EXCEPT ![lv[t].comm_ptr] = t]
    /\ pc' = [pc EXCEPT ![t] = "comm_own_rd"]
    /\ UNCHANGED <<appends, chain, ringVars, comm_self, comm_world, initVars,
                   error_ring_mutex, lv, codes, countVars, aborted>>

\* Lines 276-277: the read of comm_ptr->errhandler and the CS_EXIT
CommOwnRead(t) ==
    /\ aborted = "no"
    /\ pc[t] = "comm_own_rd"
    /\ lv' = [lv EXCEPT
                ![t].errhandler = CommHandler[lv[t].comm_ptr],
                ![t].hread = [obj |-> lv[t].comm_ptr,
                              held |-> comm_mutex[lv[t].comm_ptr] = t,
                              any |-> TRUE]]
    /\ comm_mutex' = [comm_mutex EXCEPT ![lv[t].comm_ptr] = "free"]
    /\ pc' = [pc EXCEPT ![t] = "comm_fb"]
    /\ UNCHANGED <<appends, chain, ringVars, comm_self, comm_world, initVars,
                   error_ring_mutex, codes, countVars, aborted>>

MutFallbackWorldFirst(comm_ptr, errhandler) ==
    IF errhandler # "NULL" THEN comm_ptr
    ELSE IF comm_world # "NULL" /\ CommHandler[comm_world] # "NULL"
    THEN comm_world
    ELSE IF comm_self # "NULL" /\ CommHandler[comm_self] # "NULL"
    THEN comm_self
    ELSE comm_ptr

\* Lines 280-295: the communicator whose handler is used
Fallback(comm_ptr, errhandler) ==
    IF errhandler # "NULL" THEN comm_ptr
    ELSE IF comm_self # "NULL" /\ CommHandler[comm_self] # "NULL"
    THEN comm_self
    ELSE IF comm_world # "NULL" /\ CommHandler[comm_world] # "NULL"
    THEN comm_world
    ELSE comm_ptr

\* Lines 290-292: the last errhandler field the fallback reads, with no
\* lock taken
FallbackRead(t, errhandler, hread) ==
    IF errhandler # "NULL" THEN hread
    ELSE IF comm_self # "NULL" /\ CommHandler[comm_self] # "NULL"
    THEN [obj |-> comm_self, held |-> comm_mutex[comm_self] = t, any |-> TRUE]
    ELSE IF comm_world # "NULL"
    THEN [obj |-> comm_world, held |-> comm_mutex[comm_world] = t,
          any |-> TRUE]
    ELSE IF comm_self # "NULL"
    THEN [obj |-> comm_self, held |-> comm_mutex[comm_self] = t, any |-> TRUE]
    ELSE hread

\* Lines 280-303: the fallback and the test for a fatal code
CommFallback(t) ==
    /\ aborted = "no"
    /\ pc[t] = "comm_fb"
    /\ LET comm_ptr == Fallback(lv[t].comm_ptr, lv[t].errhandler)
           fatal == MPIR_Err_is_fatal(lv[t].errcode) \/ comm_ptr = "NULL"
       IN  /\ lv' = [lv EXCEPT
                       ![t].comm_ptr = comm_ptr,
                       ![t].via_comm = ~fatal,
                       ![t].hread = FallbackRead(t, lv[t].errhandler,
                                                 lv[t].hread)]
           /\ pc' = [pc EXCEPT ![t] = IF fatal THEN "fatal" ELSE "comm_lock"]
    /\ UNCHANGED <<appends, chain, ringVars, objVars, initVars, error_ring_mutex, codes,
                   countVars, aborted>>

\* Line 310: MPID_THREAD_CS_ENTER(VCI, comm_ptr->mutex)
CommLock(t) ==
    /\ aborted = "no"
    /\ pc[t] = "comm_lock"
    /\ comm_mutex[lv[t].comm_ptr] = "free"
    /\ comm_mutex' = [comm_mutex EXCEPT ![lv[t].comm_ptr] = t]
    /\ pc' = [pc EXCEPT ![t] = "comm_rd"]
    /\ UNCHANGED <<appends, chain, ringVars, comm_self, comm_world, initVars,
                   error_ring_mutex, lv, codes, countVars, aborted>>

\* A read that goes to the fatal path with comm_ptr->mutex still taken
MutCommReadKeepsLock(t) ==
    /\ aborted = "no"
    /\ pc[t] = "comm_rd"
    /\ LET errhandler == CommHandler[lv[t].comm_ptr]
           fatal == errhandler \in {"NULL", "FATAL", "ABORT"}
       IN  /\ lv' = [lv EXCEPT
                       ![t].errhandler = errhandler,
                       ![t].via_comm = ~fatal,
                       ![t].hread = [obj |-> lv[t].comm_ptr,
                                     held |-> comm_mutex[lv[t].comm_ptr] = t,
                                     any |-> TRUE]]
           /\ pc' = [pc EXCEPT ![t] = IF fatal THEN "fatal" ELSE "user_lock"]
    /\ UNCHANGED <<appends, chain, ringVars, objVars, initVars,
                   error_ring_mutex, codes, countVars, aborted>>

\* Lines 311-321: the read of comm_ptr->errhandler; with no handler or a
\* fatal one, the CS_EXIT and the fatal path
CommRead(t) ==
    /\ aborted = "no"
    /\ pc[t] = "comm_rd"
    /\ LET errhandler == CommHandler[lv[t].comm_ptr]
           fatal == errhandler \in {"NULL", "FATAL", "ABORT"}
       IN  /\ lv' = [lv EXCEPT
                       ![t].errhandler = errhandler,
                       ![t].via_comm = ~fatal,
                       ![t].hread = [obj |-> lv[t].comm_ptr,
                                     held |-> comm_mutex[lv[t].comm_ptr] = t,
                                     any |-> TRUE]]
           /\ comm_mutex' = IF fatal
                            THEN [comm_mutex EXCEPT ![lv[t].comm_ptr] = "free"]
                            ELSE comm_mutex
           /\ pc' = [pc EXCEPT ![t] = IF fatal THEN "fatal" ELSE "user_lock"]
    /\ UNCHANGED <<appends, chain, ringVars, comm_self, comm_world, initVars,
                   error_ring_mutex, codes, countVars, aborted>>

Dispatch(t) ==
    \/ DispatchBegin(t)
    \/ CommOwnLock(t)
    \/ CommOwnRead(t)
    \/ CommFallback(t)
    \/ CommLock(t)
    \/ CommRead(t)
    \/ UserLock(t)
    \/ UserBody(t)
    \/ UserUnlock(t)
    \/ Call(t)
    \/ CallbackReturn(t)
    \/ FatalBegin(t)
    \/ FatalWalk(t)
    \/ FatalUnlock(t)

(***************************************************************************)
(* The specification of the ring: two threads create error codes while     *)
(* MPI is being initialized.                                               *)
(***************************************************************************)
Init ==
    /\ ErrorRing = [i \in 0 .. MAX_ERROR_RING - 1 |-> ZeroEntry]
    /\ error_ring_loc = 0
    /\ max_error_ring_loc = 0
    /\ did_err_init = FALSE
    /\ mpich_state = "UNINITIALIZED"
    /\ MPIR_CVAR_PRINT_ERROR_STACK = TRUE
    /\ MPIR_CVAR_CHOP_ERROR_STACK = 0
    /\ err_init_runs = [mutex |-> 0, chop |-> 0]
    /\ error_ring_mutex = "free"
    /\ comm_mutex = [c \in DOMAIN CommHandler |-> "free"]
    /\ comm_self = "NULL"
    /\ comm_world = "NULL"
    /\ pc = [t \in Threads |-> "idle"]
    /\ lv = [t \in Threads |-> NoLocals]
    /\ codes = {}
    /\ ncreates = 0
    /\ ndispatches = 0
    /\ appends = <<>>
    /\ chain = <<>>
    /\ aborted = "no"

Next ==
    \/ MPIR_Err_init
    \/ MpiInitDone
    \/ \E t \in Threads :
         \/ CreateBegin(t)
         \/ CreateLock(t)
         \/ CreateRead(t)
         \/ CreateWrite(t)
         \/ CreateUnlock(t)
         \/ Return(t)

Spec == Init /\ [][Next]_vars

(***************************************************************************)
(* The specification of the dispatch: a thread creates error codes and     *)
(* calls the MPIR_Err_return_xxx routines while MPI is being initialized.  *)
(***************************************************************************)
\* Number of MPIR_Err_create_code calls under SpecDispatch
MaxDispatchCreates == 1

DispatchCreateBegin(t) ==
    CreateBeginWith(t, MaxDispatchCreates, {MPI_SUCCESS} \cup codes,
                    {MPI_ERR_BUFFER}, {<<42, 42, 102>>, USER_KEY},
                    {<<97, 98>>}, {FALSE})

DispatchInitDone == MpiInitDoneWith(SelfComms, WorldComms)

NextDispatch ==
    \/ MPIR_Err_init
    \/ DispatchInitDone
    \/ DispatchCreateBegin("t1")
    \/ CreateLock("t1")
    \/ CreateRead("t1")
    \/ CreateWrite("t1")
    \/ CreateUnlock("t1")
    \/ Dispatch("t1")
    \/ Return("t1")

SpecDispatch == Init /\ [][NextDispatch]_vars

(***************************************************************************)
(* The specification of the wrap of the ring: one thread makes one more    *)
(* MPIR_Err_create_code call than the ring holds entries, with arguments   *)
(* chosen at the start, and asks for the text of the codes.  MPI is        *)
(* initialized.                                                            *)
(***************************************************************************)
\* Class, generic message and specific message of a call: "**f" with the
\* texts "ab", "ba" (same checksum) and "ac", another class, another
\* generic message, a generic message the table does not hold
AppendArgs ==
    { [error_class |-> MPI_ERR_BUFFER, generic_msg |-> <<42, 42, 102>>,
       specific_msg |-> <<97, 98>>],
      [error_class |-> MPI_ERR_BUFFER, generic_msg |-> <<42, 42, 102>>,
       specific_msg |-> <<98, 97>>],
      [error_class |-> MPI_ERR_BUFFER, generic_msg |-> <<42, 42, 102>>,
       specific_msg |-> <<97, 99>>],
      [error_class |-> MPI_ERR_INTERN, generic_msg |-> <<42, 42, 102>>,
       specific_msg |-> <<97, 98>>],
      [error_class |-> MPI_ERR_BUFFER, generic_msg |-> <<42, 42, 97>>,
       specific_msg |-> <<97, 98>>],
      [error_class |-> MPI_ERR_BUFFER, generic_msg |-> <<122>>,
       specific_msg |-> <<97, 98>>] }

InitWrap ==
    /\ ErrorRing = [i \in 0 .. MAX_ERROR_RING - 1 |-> ZeroEntry]
    /\ error_ring_loc = 0
    /\ max_error_ring_loc = 0
    /\ did_err_init = TRUE
    /\ mpich_state = "INITIALIZED"
    /\ MPIR_CVAR_PRINT_ERROR_STACK = TRUE
    /\ MPIR_CVAR_CHOP_ERROR_STACK = 0
    /\ err_init_runs = [mutex |-> 1, chop |-> 0]
    /\ error_ring_mutex = "free"
    /\ comm_mutex = [c \in DOMAIN CommHandler |-> "free"]
    /\ comm_self = "selfN"
    /\ comm_world = "worldN"
    /\ pc = [t \in Threads |-> "idle"]
    /\ lv = [t \in Threads |-> NoLocals]
    /\ codes = {}
    /\ ncreates = 0
    /\ ndispatches = 0
    /\ appends \in [1 .. MAX_ERROR_RING + 1 -> AppendArgs]
    /\ chain = <<>>
    /\ aborted = "no"

\* The next call, with the arguments appends holds for it
WrapCreateBegin(t) ==
    /\ ncreates < Len(appends)
    /\ CreateBeginWith(t, Len(appends), {MPI_SUCCESS} \cup codes,
                       {appends[ncreates + 1].error_class},
                       {appends[ncreates + 1].generic_msg},
                       {appends[ncreates + 1].specific_msg}, {FALSE})

\* The text of a code is asked for once the calls are made
WrapGetStringBegin(t) ==
    /\ ncreates = Len(appends)
    /\ GetStringBegin(t)

NextWrap ==
    \/ WrapCreateBegin("t1")
    \/ CreateLock("t1")
    \/ CreateRead("t1")
    \/ CreateWrite("t1")
    \/ CreateUnlock("t1")
    \/ WrapGetStringBegin("t1")
    \/ GetStringWalk("t1")
    \/ GetStringUnlock("t1")
    \/ Return("t1")

SpecWrap == InitWrap /\ [][NextWrap]_vars

(***************************************************************************)
(* MPIR_Err_combine_codes and CombineSpecificCodes                         *)
(***************************************************************************)
RECURSIVE MutCombineAppendsAtBreak(_, _, _, _, _, _)
MutCombineAppendsAtBreak(error_code, error2_code, error2_class, ring, maxloc, fuel) ==
    LET c == convertErrcodeToIndexes(error_code, maxloc)
        prev == EntryAt(ring, c.ring_idx).prev_error
    IN  IF fuel = 0 THEN ring
        ELSE IF c.rc # 0 \/ c.generic_idx < 0 \/ ~EntryMatches(ring, c)
                \/ prev = MPI_SUCCESS
        THEN IF c.ring_idx \in DOMAIN ring
             THEN [ring EXCEPT ![c.ring_idx].prev_error = error2_code]
             ELSE ring
        ELSE MutCombineAppendsAtBreak(prev, error2_code, error2_class,
                 IF ERROR_GET_CLASS(prev) = MPI_ERR_OTHER
                 THEN [ring EXCEPT ![c.ring_idx].prev_error =
                                      SetClass(prev, error2_class)]
                 ELSE ring,
                 maxloc, fuel - 1)

RECURSIVE CombineSpecificCodes(_, _, _, _, _, _)
\* Lines 1923-1950: the ring after the walk from error_code that stores
\* error2_code in the link that holds MPI_SUCCESS
CombineSpecificCodes(error_code, error2_code, error2_class, ring, maxloc, fuel) ==
    LET c == convertErrcodeToIndexes(error_code, maxloc)
        prev == EntryAt(ring, c.ring_idx).prev_error
    IN  IF c.rc # 0 \/ c.generic_idx < 0 \/ ~EntryMatches(ring, c) \/ fuel = 0
        THEN ring
        ELSE IF prev = MPI_SUCCESS
        THEN [ring EXCEPT ![c.ring_idx].prev_error = error2_code]
        ELSE CombineSpecificCodes(prev, error2_code, error2_class,
                 IF ERROR_GET_CLASS(prev) = MPI_ERR_OTHER
                 THEN [ring EXCEPT ![c.ring_idx].prev_error =
                                      SetClass(prev, error2_class)]
                 ELSE ring,
                 maxloc, fuel - 1)

MutCombineEarlyNoSuccess(error1, error2) ==
    IF DynBit(error1) THEN <<TRUE, error1>>
    ELSE IF DynBit(error2) THEN <<TRUE, error2>>
    ELSE <<FALSE, error1>>

MutCombineEarlyNoDyn(error1, error2) ==
    IF error1 = MPI_SUCCESS THEN <<TRUE, error2>>
    ELSE IF error2 = MPI_SUCCESS THEN <<TRUE, error1>>
    ELSE <<FALSE, error1>>

\* Lines 660-671: whether MPIR_Err_combine_codes returns at once, and the
\* code it returns then
CombineEarly(error1, error2) ==
    IF error1 = MPI_SUCCESS THEN <<TRUE, error2>>
    ELSE IF error2 = MPI_SUCCESS THEN <<TRUE, error1>>
    ELSE IF DynBit(error1) THEN <<TRUE, error1>>
    ELSE IF DynBit(error2) THEN <<TRUE, error2>>
    ELSE <<FALSE, error1>>

\* Lines 654-676: the returns that need no ring, else the class of error2
\* and error_ring_mutex_lock() of line 1921
CombineBeginWith(t, errcodes) ==
    /\ aborted = "no"
    /\ pc[t] = "idle"
    /\ \E error1 \in errcodes, error2 \in errcodes :
         LET error2_class == IF ERROR_GET_CLASS(error2) > MPICH_ERR_LAST_MPIX
                             THEN MPI_ERR_OTHER
                             ELSE ERROR_GET_CLASS(error2)
             l == [NoLocals EXCEPT !.op = "combine", !.errcode0 = error1,
                                   !.errcode = error2,
                                   !.error_class = error2_class,
                                   !.pre = ringVars]
             early == CombineEarly(error1, error2)
         IN  IF early[1]
             THEN /\ pc' = [pc EXCEPT ![t] = "returned"]
                  /\ lv' = [lv EXCEPT ![t] = [l EXCEPT !.ret = early[2]]]
                  /\ UNCHANGED error_ring_mutex
             ELSE /\ error_ring_mutex_lock(t)
                  /\ pc' = [pc EXCEPT ![t] = "cb_walk"]
                  /\ lv' = [lv EXCEPT ![t] = l]
    /\ UNCHANGED <<appends, chain, ringVars, objVars, initVars, codes, countVars,
                   aborted>>

\* Lines 1923-1950: the loop of CombineSpecificCodes; it never ends on a
\* chain that leads back to one of its entries
CombineWalk(t) ==
    /\ aborted = "no"
    /\ pc[t] = "cb_walk"
    /\ IF WalkDiverges(lv[t].errcode0, ErrorRing, max_error_ring_loc, WalkFuel)
       THEN /\ pc' = [pc EXCEPT ![t] = "hung"]
            /\ UNCHANGED ErrorRing
       ELSE /\ pc' = [pc EXCEPT ![t] = "cb_unlock"]
            /\ ErrorRing' = CombineSpecificCodes(lv[t].errcode0, lv[t].errcode,
                                lv[t].error_class, ErrorRing,
                                max_error_ring_loc, WalkFuel)
    /\ lv' = [lv EXCEPT ![t].access = Access(t, "CombineSpecificCodes")]
    /\ UNCHANGED <<appends, chain, error_ring_loc, max_error_ring_loc, objVars,
                   initVars, error_ring_mutex, codes, countVars, aborted>>

MutCombineTakesFatal(t) ==
    /\ aborted = "no"
    /\ pc[t] = "cb_unlock"
    /\ error_ring_mutex_unlock(t)
    /\ pc' = [pc EXCEPT ![t] = "returned"]
    /\ lv' = [lv EXCEPT ![t].ret =
                IF FatalBit(lv[t].errcode) THEN SetFatal(lv[t].errcode0)
                ELSE lv[t].errcode0]
    /\ UNCHANGED <<appends, chain, ringVars, objVars, initVars, codes, countVars,
                   aborted>>

\* Lines 1951 and 680-686: error_ring_mutex_unlock(); error1 of class
\* MPI_ERR_OTHER is returned with the class of error2
CombineUnlock(t) ==
    /\ aborted = "no"
    /\ pc[t] = "cb_unlock"
    /\ error_ring_mutex_unlock(t)
    /\ pc' = [pc EXCEPT ![t] = "returned"]
    /\ lv' = [lv EXCEPT ![t].ret =
                IF ERROR_GET_CLASS(lv[t].errcode0) = MPI_ERR_OTHER
                THEN SetClass(lv[t].errcode0, lv[t].error_class)
                ELSE lv[t].errcode0]
    /\ UNCHANGED <<appends, chain, ringVars, objVars, initVars, codes, countVars,
                   aborted>>

(***************************************************************************)
(* The specification of the chains: one thread, MPI initialized, appends   *)
(* up to MAX_ERROR_RING codes, each on top of the code the call before     *)
(* returned (mpi_errno = MPIR_Err_create_code(mpi_errno, ...)) or of the   *)
(* code the arguments name, and then makes one call on the codes it holds: *)
(* MPIR_Err_get_string, MPIR_Err_combine_codes or MPIR_Err_return_win.     *)
(***************************************************************************)
\* A code nobody returned: class MPI_ERR_INTERN, generic message "**f",
\* the checksum of "ab", ring index i
Forged(i) ==
    MPI_ERR_INTERN + 2 * ERROR_GENERIC_SHIFT + i * ERROR_SPECIFIC_INDEX_SHIFT
      + 3 * ERROR_SPECIFIC_SEQ_SHIFT

\* The arguments of an append: the code is built on the code returned last
\* (cite) or on lastcode
ChainArgs ==
    LET Arg(class, generic, specific, cite, lastcode, fatal) ==
          [error_class |-> class, generic_msg |-> generic,
           specific_msg |-> specific, cite |-> cite, lastcode |-> lastcode,
           fatal |-> fatal]
    IN  { Arg(MPI_ERR_BUFFER, <<42, 42, 102>>, <<97, 98>>, TRUE, 0, FALSE),
          Arg(MPI_ERR_OTHER, <<42, 42, 97>>, NULL_STR, TRUE, 0, FALSE),
          Arg(MPI_ERR_BUFFER, <<122>>, <<97, 98>>, TRUE, 0, FALSE),
          Arg(MPI_ERR_BUFFER, USER_KEY, <<42, 42, 102, 32, 37, 100>>, TRUE, 0,
              FALSE),
          Arg(MPI_ERR_BUFFER, USER_KEY, NULL_STR, TRUE, 0, FALSE),
          Arg(MPI_ERR_IN_STATUS, <<42, 42, 102>>, NULL_STR, TRUE, 0, TRUE),
          Arg(MPI_ERR_INTERN, <<42, 42, 102>>, <<97, 98>>, FALSE, MPI_SUCCESS,
              FALSE),
          Arg(MPI_ERR_OTHER, <<42, 42, 102>>, <<97, 99>>, FALSE, MPI_SUCCESS,
              FALSE),
          Arg(MPI_ERR_BUFFER, <<42, 42, 102>>, <<97, 98>>, FALSE, Forged(0),
              FALSE),
          Arg(MPI_ERR_BUFFER, <<42, 42, 102>>, <<97, 98>>, FALSE, Forged(1),
              FALSE) }

InitChain ==
    /\ ErrorRing = [i \in 0 .. MAX_ERROR_RING - 1 |-> ZeroEntry]
    /\ error_ring_loc = 0
    /\ max_error_ring_loc = 0
    /\ did_err_init = TRUE
    /\ mpich_state = "INITIALIZED"
    /\ MPIR_CVAR_PRINT_ERROR_STACK = TRUE
    /\ MPIR_CVAR_CHOP_ERROR_STACK = 0
    /\ err_init_runs = [mutex |-> 1, chop |-> 0]
    /\ error_ring_mutex = "free"
    /\ comm_mutex = [c \in DOMAIN CommHandler |-> "free"]
    /\ comm_self = "selfN"
    /\ comm_world = "worldN"
    /\ pc = [t \in Threads |-> "idle"]
    /\ lv = [t \in Threads |-> NoLocals]
    /\ codes = {}
    /\ ncreates = 0
    /\ ndispatches = 0
    /\ appends \in UNION {[1 .. k -> ChainArgs] : k \in 1 .. MAX_ERROR_RING}
    /\ chain = <<>>
    /\ aborted = "no"

\* The code the caller holds: MPI_SUCCESS, then the code returned last
LastCode == IF chain = <<>> THEN MPI_SUCCESS ELSE chain[Len(chain)]

\* The next append, with the arguments appends holds for it
ChainCreateBegin(t) ==
    /\ ncreates < Len(appends)
    /\ LET a == appends[ncreates + 1] IN
         CreateBeginWith(t, Len(appends),
                         {IF a.cite THEN LastCode ELSE a.lastcode},
                         {a.error_class}, {a.generic_msg}, {a.specific_msg},
                         {a.fatal})

\* The codes of the call made after the appends: the codes returned,
\* MPI_SUCCESS, a class, two dynamic codes, two codes nobody returned, a
\* fatal code whose class is beyond MPICH_ERR_LAST_MPIX
ChainCodes ==
    codes \cup {MPI_SUCCESS, MPI_ERR_BUFFER, MPI_ERR_BUFFER + ERROR_DYN_MASK,
                Forged(0) + ERROR_DYN_MASK, Forged(0), Forged(1),
                MPICH_ERR_LAST_MPIX + 1 + ERROR_FATAL_MASK}

\* The call made after the appends: MPIR_Err_get_string,
\* MPIR_Err_combine_codes, or MPIR_Err_return_win on a window whose handler
\* returns the code
ChainCall(t) ==
    /\ ncreates = Len(appends)
    /\ \/ GetStringBegin(t)
       \/ CombineBeginWith(t, ChainCodes)
       \/ DispatchBeginWith(t, {"win"}, {"wT"}, ChainCodes)

\* The return of a call: the caller keeps the code of an append; after any
\* other call the run is over
ChainReturn(t) ==
    /\ aborted = "no"
    /\ pc[t] = "returned"
    /\ IF lv[t].op = "create"
       THEN /\ pc' = [pc EXCEPT ![t] = "idle"]
            /\ codes' = codes \cup {lv[t].ret}
            /\ chain' = Append(chain, lv[t].ret)
       ELSE /\ pc' = [pc EXCEPT ![t] = "done"]
            /\ UNCHANGED <<codes, chain>>
    /\ lv' = [lv EXCEPT ![t] = NoLocals]
    /\ UNCHANGED <<appends, ringVars, objVars, initVars, error_ring_mutex,
                   countVars, aborted>>

NextChain ==
    \/ ChainCreateBegin("t1")
    \/ CreateLock("t1")
    \/ CreateRead("t1")
    \/ CreateWrite("t1")
    \/ CreateUnlock("t1")
    \/ ChainCall("t1")
    \/ GetStringWalk("t1")
    \/ GetStringUnlock("t1")
    \/ CombineWalk("t1")
    \/ CombineUnlock("t1")
    \/ UserLock("t1")
    \/ UserBody("t1")
    \/ UserUnlock("t1")
    \/ Call("t1")
    \/ ChainReturn("t1")

SpecChain == InitChain /\ [][NextChain]_vars

(***************************************************************************)
(* The specification of the message tables: one thread looks a key up with *)
(* FindGenericMsgIndex / FindSpecificMsgIndex in a table of up to MaxTable *)
(* entries whose intact entries are in the order of strcmp; an entry whose *)
(* sentinels were overwritten holds any key.                               *)
(***************************************************************************)
MaxTable == 3

\* "**", "**a", "**ab", "**b", "**ba"
LookupKeys ==
    {<<42, 42>>, <<42, 42, 97>>, <<42, 42, 97, 98>>, <<42, 42, 98>>,
     <<42, 42, 98, 97>>}

\* The intact entries of table are in the order of strcmp, no key twice
SortedTable(table) ==
    \A i, j \in DOMAIN table :
       (i < j /\ table[i].intact /\ table[j].intact)
         => strcmp(table[i].short_name, table[j].short_name) < 0

LookupTables ==
    {table \in UNION {[1 .. n -> [short_name : LookupKeys, long_name : {<<>>},
                                  intact : BOOLEAN]] : n \in 0 .. MaxTable} :
       SortedTable(table)}

\* Lines 2024-2050 and 1279-1300: the lookup of msg in table
LookupCall(t) ==
    /\ aborted = "no"
    /\ pc[t] = "idle"
    /\ \E table \in LookupTables, msg \in LookupKeys :
         lv' = [lv EXCEPT ![t] =
                  [NoLocals EXCEPT !.op = "lookup", !.pre = table,
                                   !.msg = msg,
                                   !.generic_idx =
                                      FindMsgIndexFrom(table, msg, 0),
                                   !.out = FindMsgCompared(table, msg, 0)]]
    /\ pc' = [pc EXCEPT ![t] = "returned"]
    /\ UNCHANGED <<appends, chain, ringVars, objVars, initVars, error_ring_mutex,
                   codes, countVars, aborted>>

NextLookup ==
    \/ LookupCall("t1")
    \/ Return("t1")

SpecLookup == Init /\ [][NextLookup]_vars

(***************************************************************************)
(* The specification of the texts: one thread, MPI initialized, with       *)
(* MPIR_CVAR_PRINT_ERROR_STACK and MPIR_CVAR_CHOP_ERROR_STACK as the       *)
(* environment set them, appends up to MAX_ERROR_RING codes and then calls *)
(* MPIR_Err_get_string on the code it holds, with a buffer of up to        *)
(* MaxTextLen bytes.                                                       *)
(***************************************************************************)
MaxTextLen == 50

\* The arguments of the appends: class MPI_ERR_BUFFER with the message
\* "ab", class MPI_ERR_OTHER with the message "A" of "**a", and an append
\* on a code nobody returned
TextArgs ==
    LET Arg(class, generic, specific, cite, lastcode) ==
          [error_class |-> class, generic_msg |-> generic,
           specific_msg |-> specific, cite |-> cite, lastcode |-> lastcode,
           fatal |-> FALSE]
    IN  { Arg(MPI_ERR_BUFFER, <<42, 42, 102>>, <<97, 98>>, TRUE, 0),
          Arg(MPI_ERR_OTHER, <<42, 42, 97>>, NULL_STR, TRUE, 0),
          Arg(MPI_ERR_BUFFER, <<42, 42, 102>>, <<97, 98>>, FALSE, Forged(0)) }

\* MPIR_CVAR_PRINT_ERROR_STACK and MPIR_CVAR_CHOP_ERROR_STACK: the defaults,
\* lines of 7 and of 8 characters (the locations take 6), and no stack
TextSettings == {<<TRUE, 0>>, <<TRUE, 7>>, <<TRUE, 8>>, <<FALSE, 0>>}

InitText ==
    /\ ErrorRing = [i \in 0 .. MAX_ERROR_RING - 1 |-> ZeroEntry]
    /\ error_ring_loc = 0
    /\ max_error_ring_loc = 0
    /\ did_err_init = TRUE
    /\ mpich_state = "INITIALIZED"
    /\ \E s \in TextSettings :
          /\ MPIR_CVAR_PRINT_ERROR_STACK = s[1]
          /\ MPIR_CVAR_CHOP_ERROR_STACK = s[2]
    /\ err_init_runs = [mutex |-> 1, chop |-> 0]
    /\ error_ring_mutex = "free"
    /\ comm_mutex = [c \in DOMAIN CommHandler |-> "free"]
    /\ comm_self = "selfN"
    /\ comm_world = "worldN"
    /\ pc = [t \in Threads |-> "idle"]
    /\ lv = [t \in Threads |-> NoLocals]
    /\ codes = {}
    /\ ncreates = 0
    /\ ndispatches = 0
    /\ appends \in UNION {[1 .. k -> TextArgs] : k \in 1 .. MAX_ERROR_RING}
    /\ chain = <<>>
    /\ aborted = "no"

\* MPIR_Err_get_string(errorcode, msg, length, NULL) on the code the caller
\* holds; beyond is what the memory behind msg yields to strlen
TextCall(t) ==
    /\ aborted = "no"
    /\ pc[t] = "idle"
    /\ ncreates = Len(appends)
    /\ \E length \in 0 .. MaxTextLen, beyond \in {0, 1} :
         lv' = [lv EXCEPT ![t] =
                  [NoLocals EXCEPT
                     !.op = "text", !.errcode0 = LastCode,
                     !.pre = [length |-> length, beyond |-> beyond],
                     !.out = GetStringBytes(LastCode, length, beyond,
                                 ErrorRing, max_error_ring_loc,
                                 MPIR_CVAR_PRINT_ERROR_STACK,
                                 MPIR_CVAR_CHOP_ERROR_STACK)]]
    /\ pc' = [pc EXCEPT ![t] = "returned"]
    /\ UNCHANGED <<appends, chain, ringVars, objVars, initVars, error_ring_mutex,
                   codes, countVars, aborted>>

NextText ==
    \/ ChainCreateBegin("t1")
    \/ CreateLock("t1")
    \/ CreateRead("t1")
    \/ CreateWrite("t1")
    \/ CreateUnlock("t1")
    \/ TextCall("t1")
    \/ ChainReturn("t1")

SpecText == InitText /\ [][NextText]_vars

(***************************************************************************)
(* The specification of the renderer: one thread calls vsnprintf_mpi with  *)
(* a bound of up to MaxFormatLen bytes, a template and its arguments.      *)
(***************************************************************************)
MaxFormatLen == 6

\* The templates "abc", "%s", "ab%d", "abcd%s", "a%dbc", "%d:%s", "%q",
\* "ab%qcd", "abc%", each with lists of arguments of the types of its
\* directives: 7 and -12 for %d, "xy", "wxyz" and NULL for %s
FormatInputs ==
    LET ds == {7, -12}
        ss == {<<120, 121>>, <<119, 120, 121, 122>>, NULL_STR}
    IN  ({<<97, 98, 99>>, <<37, 113>>, <<97, 98, 37, 113, 99, 100>>,
          <<97, 98, 99, 37>>} \X {<<>>})
        \cup ({<<37, 115>>, <<97, 98, 99, 100, 37, 115>>} \X {<<s>> : s \in ss})
        \cup ({<<97, 98, 37, 100>>, <<97, 37, 100, 98, 99>>}
                \X {<<d>> : d \in ds})
        \cup ({<<37, 100, 58, 37, 115>>} \X {<<d, s>> : d \in ds, s \in ss})

\* Line 1002: vsnprintf_mpi(ring_msg, maxlen, fmt, list)
FormatCall(t) ==
    /\ aborted = "no"
    /\ pc[t] = "idle"
    /\ \E maxlen \in 0 .. MaxFormatLen, in \in FormatInputs :
         lv' = [lv EXCEPT ![t] =
                  [NoLocals EXCEPT !.op = "format",
                                   !.pre = [maxlen |-> maxlen, fmt |-> in[1],
                                            list |-> in[2]],
                                   !.out = RenderFrom(CursorAt(maxlen, in[2]),
                                                      in[1])]]
    /\ pc' = [pc EXCEPT ![t] = "returned"]
    /\ UNCHANGED <<appends, chain, ringVars, objVars, initVars, error_ring_mutex,
                   codes, countVars, aborted>>

NextFormat ==
    \/ FormatCall("t1")
    \/ Return("t1")

SpecFormat == Init /\ [][NextFormat]_vars

(***************************************************************************)
(* The specification of the fields of an error code: one thread packs the  *)
(* fields into a code as MPIR_Err_create_code_valist does (a dynamic code  *)
(* has ERROR_DYN_MASK set besides) and takes the code apart with           *)
(* convertErrcodeToIndexes and the field macros, or asks MPIR_Err_is_fatal.*)
(***************************************************************************)
\* Lines 928-958, 1015 and 1066-1075: the code of the fields, for classes
\* from 0 to the largest the field holds, no generic message, the first
\* and the last generic index, ring indexes up to the last, messages of
\* checksum 0, 3 and 15
PackCall(t) ==
    /\ aborted = "no"
    /\ pc[t] = "idle"
    /\ \E error_class \in {MPI_SUCCESS, MPI_ERR_BUFFER, MPI_ERR_OTHER,
                            MPI_ERR_IN_STATUS, MPICH_ERR_LAST_MPIX,
                            ERROR_CLASS_SIZE - 1},
          generic_idx \in {-1, 0, 2, ERROR_GENERIC_SIZE - 2},
          ring_idx \in {0, 1, ERROR_SPECIFIC_INDEX_SIZE - 1},
          msg \in {<<16>>, <<97, 98>>, <<15>>},
          fatal \in BOOLEAN, dyn \in BOOLEAN :
         LET cid == ErrcodeCreateID(error_class, generic_idx, msg)
             l == [NoLocals EXCEPT !.op = "pack", !.fatal = fatal,
                                   !.error_class = error_class,
                                   !.generic_idx = generic_idx,
                                   !.msg = msg, !.ring_idx = ring_idx,
                                   !.ring_seq = cid.seq]
         IN  lv' = [lv EXCEPT ![t] =
                      [l EXCEPT !.errcode = CreatedCode(l)
                                   + (IF dyn THEN ERROR_DYN_MASK ELSE 0),
                                !.pre = [class |-> error_class,
                                         generic_idx |-> generic_idx,
                                         ring_idx |-> ring_idx,
                                         seq |-> cid.seq, fatal |-> fatal,
                                         dyn |-> dyn, id |-> cid.id]]]
    /\ pc' = [pc EXCEPT ![t] = "packed"]
    /\ UNCHANGED <<appends, chain, ringVars, objVars, initVars, error_ring_mutex,
                   codes, countVars, aborted>>

\* convertErrcodeToIndexes, MPIR_ERR_GET_CLASS and the masks of the flags
UnpackCall(t) ==
    /\ aborted = "no"
    /\ pc[t] = "packed"
    /\ LET c == convertErrcodeToIndexes(lv[t].errcode, max_error_ring_loc)
       IN  lv' = [lv EXCEPT ![t].op = "unpack",
                            ![t].out =
                               [class |-> ERROR_GET_CLASS(lv[t].errcode),
                                generic_idx |-> c.generic_idx,
                                ring_idx |-> c.ring_idx,
                                seq |-> SpecificSeqField(lv[t].errcode),
                                fatal |-> FatalBit(lv[t].errcode),
                                dyn |-> DynBit(lv[t].errcode),
                                id |-> c.ring_id]]
    /\ pc' = [pc EXCEPT ![t] = "returned"]
    /\ UNCHANGED <<appends, chain, ringVars, objVars, initVars, error_ring_mutex,
                   codes, countVars, aborted>>

\* MPIR_Err_is_fatal(errcode)
IsFatalCall(t) ==
    /\ aborted = "no"
    /\ pc[t] = "packed"
    /\ lv' = [lv EXCEPT ![t].op = "is_fatal",
                        ![t].out = <<MPIR_Err_is_fatal(lv[t].errcode)>>]
    /\ pc' = [pc EXCEPT ![t] = "returned"]
    /\ UNCHANGED <<appends, chain, ringVars, objVars, initVars, error_ring_mutex,
                   codes, countVars, aborted>>

NextCodec ==
    \/ PackCall("t1")
    \/ UnpackCall("t1")
    \/ IsFatalCall("t1")
    \/ Return("t1")

SpecCodec == Init /\ [][NextCodec]_vars

(***************************************************************************)
(* The specification of the initialization: MPIR_Err_init is called, and   *)
(* called again, while two threads create error codes.  The control        *)
(* variables hold what the environment of the process set.                 *)
(***************************************************************************)
\* Number of MPIR_Err_init calls
MaxInits == 2
\* Number of MPIR_Err_create_code calls under SpecInit
MaxInitCreates == 2

\* The settings of MPIR_CVAR_CHOP_ERROR_STACK: "a sensible default", no
\* chopping, a width
ChopSettings == {-1, 0, 5}

InitAnyChop ==
    /\ ErrorRing = [i \in 0 .. MAX_ERROR_RING - 1 |-> ZeroEntry]
    /\ error_ring_loc = 0
    /\ max_error_ring_loc = 0
    /\ did_err_init = FALSE
    /\ mpich_state = "UNINITIALIZED"
    /\ MPIR_CVAR_PRINT_ERROR_STACK = TRUE
    /\ MPIR_CVAR_CHOP_ERROR_STACK \in ChopSettings
    /\ err_init_runs = [mutex |-> 0, chop |-> 0]
    /\ error_ring_mutex = "free"
    /\ comm_mutex = [c \in DOMAIN CommHandler |-> "free"]
    /\ comm_self = "NULL"
    /\ comm_world = "NULL"
    /\ pc = [t \in Threads |-> "idle"]
    /\ lv = [t \in Threads |-> NoLocals]
    /\ codes = {}
    /\ ncreates = 0
    /\ ndispatches = 0
    /\ appends = <<>>
    /\ chain = <<>>
    /\ aborted = "no"

\* A call of MPIR_Err_init, the first or a later one
InitCall ==
    /\ err_init_runs.mutex < MaxInits
    /\ ErrInit

InitCreateBegin(t) ==
    CreateBeginWith(t, MaxInitCreates, {MPI_SUCCESS} \cup codes,
                    CreateClasses, CreateGenerics, {NULL_STR}, CreateFatals)

NextInit ==
    \/ InitCall
    \/ MpiInitDone
    \/ \E t \in Threads :
         \/ InitCreateBegin(t)
         \/ CreateLock(t)
         \/ CreateRead(t)
         \/ CreateWrite(t)
         \/ CreateUnlock(t)
         \/ Return(t)

SpecInit == InitAnyChop /\ [][NextInit]_vars

(***************************************************************************)
(* Properties of the ring under Spec                                       *)
(***************************************************************************)
InCriticalSection(t) == pc[t] \in {"cc_write", "cc_unlock"}

\* C1: two MPIR_Err_create_code calls that are past the read of the cursor
\* at the same time never hold the same ring slot index.
C1_ConcurrentAppendsDistinctSlots ==
    \A a \in Threads, b \in Threads :
        (a # b /\ InCriticalSection(a) /\ InCriticalSection(b))
            => lv[a].ring_idx # lv[b].ring_idx

\* C4: every access to the ring state (the entries, the cursor, the
\* high-water mark) is made by a thread that holds error_ring_mutex.
C4_RingAccessUnderLock ==
    \A t \in Threads : lv[t].access.where # "none" => lv[t].access.held

(***************************************************************************)
(* Properties of the dispatch under SpecDispatch                           *)
(***************************************************************************)
OnFatalPath(t) == pc[t] \in {"fatal", "fatal_walk", "fatal_unlock", "aborted"}

\* A handler was resolved: the call is at checkForUserErrcode or later
PastResolution(t) ==
    /\ lv[t].op = "dispatch"
    /\ pc[t] \in {"user_lock", "user_body", "user_unlock", "call",
                  "callback", "returned"}

HoldsNoCommLock(t) == \A c \in DOMAIN comm_mutex : comm_mutex[c] # t

\* C2: when a user handler is called, the calling thread does not hold
\* error_ring_mutex.
C2_RingLockFreeAtCallback ==
    \A t \in Threads : pc[t] = "callback" => error_ring_mutex # t

\* The user handler is called after checkForUserErrcode took the lock and
\* read the ring for a code that MPIR_Err_create_code made.
C2_Witness ==
    \E t \in Threads :
        /\ pc[t] = "callback"
        /\ lv[t].access.where = "checkForUserErrcode"
        /\ lv[t].access.held
        /\ lv[t].errcode0 \in codes

\* C3: when a user handler is called, the calling thread holds the lock of
\* no communicator.
C3_ScopeLockFreeAtCallback ==
    \A t \in Threads : pc[t] = "callback" => HoldsNoCommLock(t)

\* C3 (amended): a user handler reached through MPIR_Err_return_comm is
\* called with the lock of the resolved communicator held, and the lock is
\* released when the call returns; a user handler of a window, a session,
\* a group or a handler argument is called with no communicator lock held.
C3_CommLockHeldAcrossCallback ==
    \A t \in Threads :
        /\ pc[t] = "callback" =>
              IF lv[t].via_comm
              THEN comm_mutex[lv[t].comm_ptr] = t
              ELSE HoldsNoCommLock(t)
        /\ pc[t] \in {"returned", "idle"} => HoldsNoCommLock(t)

C3_Witness ==
    \E t \in Threads :
        /\ pc[t] = "returned"
        /\ lv[t].cb # NoCall
        /\ lv[t].via_comm
        /\ lv[t].comm_ptr = "cUC"

\* C5: every read of the errhandler field of a communicator, a window or a
\* session is made with the lock of that object held.
C5_HandlerReadUnderLock ==
    \A t \in Threads : lv[t].hread.any => lv[t].hread.held

\* The handler of a communicator under the fallback order own, self, world
CommResolved(c) ==
    IF c # "NULL" /\ CommHandler[c] # "NULL" THEN CommHandler[c]
    ELSE IF comm_self # "NULL" /\ CommHandler[comm_self] # "NULL"
    THEN CommHandler[comm_self]
    ELSE IF comm_world # "NULL" /\ CommHandler[comm_world] # "NULL"
    THEN CommHandler[comm_world]
    ELSE "NULL"

SessionResolved(s) ==
    IF s # "NULL" /\ SessionRef[s] > 0 /\ SessionHandler[s] # "NULL"
    THEN SessionHandler[s]
    ELSE CommResolved("NULL")

\* The handler that resolves for a call of entry point `entry` on obj
ResolvedHandler(entry, obj) ==
    CASE entry = "comm" -> CommResolved(obj)
      [] entry = "win" ->
           IF obj # "NULL" /\ WinHandler[obj] # "NULL"
           THEN WinHandler[obj] ELSE CommResolved("NULL")
      [] entry = "session" -> SessionResolved(obj)
      [] entry = "group" ->
           IF obj # "NULL" THEN SessionResolved(GroupSession[obj])
           ELSE CommResolved("NULL")
      [] OTHER -> IF obj # "NULL" THEN obj ELSE CommResolved("NULL")

NoHandlerOrFatal(h) == h \in {"NULL", "FATAL", "ABORT"}

\* MPIR_Err_return_session_init called with MPI_ERRORS_RETURN or
\* MPIR_ERRORS_THROW_EXCEPTIONS
ReturningSessionInit(l) ==
    l.entry = "session_init" /\ l.obj \in {"RETURN", "THROW"}

\* The code of the call after the repair of an invalid class
RepairedCode(l) == SetClass(l.errcode0,
                            IF ERROR_GET_CLASS(l.errcode0) > MPICH_ERR_LAST_MPIX
                            THEN MPI_ERR_UNKNOWN
                            ELSE ERROR_GET_CLASS(l.errcode0))

\* The fatal path is entered exactly when `must` holds: with it no handler
\* is resolved, called or returned from; without it the fatal path is
\* never entered.
FatalExactlyWhen(t, must) ==
    /\ must => ~PastResolution(t) /\ lv[t].cb = NoCall
    /\ ~must => ~OnFatalPath(t)

\* C6: once MPI is initialized, a call enters the fatal path if and only if
\* no handler resolves, or the handler is MPI_ERRORS_ARE_FATAL or
\* MPI_ERRORS_ABORT, or the fatal bit of the code is set.
C6_FatalIffFatalBit ==
    \A t \in Threads :
        (lv[t].op = "dispatch" /\ lv[t].was_init) =>
            FatalExactlyWhen(t,
                \/ NoHandlerOrFatal(ResolvedHandler(lv[t].entry, lv[t].obj))
                \/ FatalBit(lv[t].errcode0))

\* C6 (amended): once MPI is initialized, a call enters the fatal path if
\* and only if no handler resolves, or the handler is MPI_ERRORS_ARE_FATAL
\* or MPI_ERRORS_ABORT, or the code is fatal (its fatal bit is set and it
\* is not a dynamic code); except that MPIR_Err_return_session_init called
\* with MPI_ERRORS_RETURN or MPIR_ERRORS_THROW_EXCEPTIONS returns the code
\* whatever its fatal bit.
C6_FatalIffIsFatal ==
    \A t \in Threads :
        (lv[t].op = "dispatch" /\ lv[t].was_init) =>
            FatalExactlyWhen(t,
                /\ ~ReturningSessionInit(lv[t])
                /\ \/ NoHandlerOrFatal(ResolvedHandler(lv[t].entry, lv[t].obj))
                   \/ (FatalBit(lv[t].errcode0) /\ ~DynBit(lv[t].errcode0)))

\* A dynamic code with the fatal bit set is returned by a communicator
\* whose handler is MPI_ERRORS_RETURN
C6_Witness ==
    \E t \in Threads :
        /\ pc[t] = "returned"
        /\ lv[t].op = "dispatch"
        /\ lv[t].was_init
        /\ lv[t].entry = "comm"
        /\ lv[t].obj = "cR"
        /\ DynBit(lv[t].errcode0)
        /\ FatalBit(lv[t].errcode0)
        /\ lv[t].ret = lv[t].errcode0

C8_NoRingAccessBeforeInit ==
    \A t \in Threads :
        lv[t].access.where # "none"
            => (lv[t].access.init \/ lv[t].access.errinit)

\* C8 (amended): before MPIR_Err_init has set did_err_init the ring is read
\* and written with error_ring_mutex neither locked nor unlocked: the mutex
\* stays free, and an access made then is made without it.
C8_NoLockBeforeInit ==
    /\ ~did_err_init => error_ring_mutex = "free"
    /\ \A t \in Threads :
          (lv[t].access.where # "none" /\ ~lv[t].access.init)
              => ~lv[t].access.held

\* Before MPIR_Err_init the fatal path walks the ring for a code that
\* MPIR_Err_create_code made
C8_Witness ==
    \E t \in Threads :
        /\ pc[t] = "fatal_unlock"
        /\ lv[t].access.where = "MPIR_Err_get_string"
        /\ ~lv[t].access.init
        /\ lv[t].errcode0 \in codes

\* C9: MPIR_Err_return_comm uses the handler of the communicator, else of
\* MPIR_Process.comm_self, else of MPIR_Process.comm_world; with none of
\* the three it takes the fatal path.
C9_FallbackOrder ==
    \A t \in Threads :
        (lv[t].op = "dispatch" /\ lv[t].entry = "comm" /\ lv[t].was_init) =>
            /\ PastResolution(t) =>
                  /\ lv[t].errhandler = CommResolved(lv[t].obj)
                  /\ lv[t].errhandler # "NULL"
            /\ (CommResolved(lv[t].obj) = "NULL"
                  /\ pc[t] \notin {"comm_own", "comm_own_rd", "comm_fb",
                                    "comm_lock", "comm_rd"})
                  => OnFatalPath(t)

\* A communicator with no handler calls the handler of comm_self, and
\* comm_world holds another
C9_Witness ==
    \E t \in Threads :
        /\ pc[t] = "callback"
        /\ lv[t].entry = "comm"
        /\ lv[t].obj = "cN"
        /\ comm_self = "selfUC"
        /\ comm_world = "worldR"
        /\ lv[t].errhandler = "USER_C"

(***************************************************************************)
(* Properties of the wrap of the ring under SpecWrap                       *)
(***************************************************************************)
\* The code the first call returned: its entry is in slot 0
FirstCode ==
    LET a == appends[1]
        l == CreateLocals(MPI_SUCCESS, FALSE, a.error_class, a.generic_msg,
                          a.specific_msg, 0, CreateFcname, CreateLine,
                          [i \in 0 .. MAX_ERROR_RING - 1 |-> ZeroEntry], 0)
    IN  CreatedCode([l EXCEPT !.ring_idx = 0,
                              !.ring_seq = ErrcodeCreateID(l.error_class,
                                               l.generic_idx, l.msg).seq])

\* The id of the entry a code was made with
IdOf(errcode) ==
    errcode - SpecificIndexField(errcode) * ERROR_SPECIFIC_INDEX_SHIFT
            - (IF FatalBit(errcode) THEN ERROR_FATAL_MASK ELSE 0)

\* MPIR_Err_get_string has returned the text of the first code after the
\* call that wrote slot 0 again
FirstCodeRendered(t) ==
    /\ pc[t] = "returned"
    /\ lv[t].op = "get_string"
    /\ ncreates = MAX_ERROR_RING + 1
    /\ lv[t].errcode0 = FirstCode

\* The class message, ", error stack:\n" and the line "(unknown)(): " with
\* the class message
ClassFallbackText(errcode) ==
    get_class_msg(ERROR_GET_CLASS(errcode)) \o ErrorStackStr \o UnknownStr
        \o get_class_msg(ERROR_GET_CLASS(errcode))

\* The same with the generic message of the code in the last line
GenericFallbackText(errcode) ==
    get_class_msg(ERROR_GET_CLASS(errcode)) \o ErrorStackStr \o UnknownStr
        \o generic_err_msgs[GenericField(errcode)].long_name

\* C10: after MAX_ERROR_RING + 1 calls the text of the first code is a
\* fallback text: it holds no location and no message of a ring entry.
C10_StaleCodeRendersFallback ==
    \A t \in Threads :
        FirstCodeRendered(t) =>
            \/ lv[t].text = ClassFallbackText(FirstCode)
            \/ /\ GenericField(FirstCode) > 0
               /\ lv[t].text = GenericFallbackText(FirstCode)

\* C10 (amended): after MAX_ERROR_RING + 1 calls the text of the first code
\* is the fallback text (the line "(unknown)(): " with the generic message
\* of the code, or with the class message when the code has none),
\* provided the entry now in its slot has another id, that is another
\* class, generic message or checksum of the message text.
C10_StaleCodeRendersFallbackUnlessSameId ==
    \A t \in Threads :
        (FirstCodeRendered(t) /\ ErrorRing[0].id # IdOf(FirstCode)) =>
            lv[t].text = IF GenericField(FirstCode) > 0
                         THEN GenericFallbackText(FirstCode)
                         ELSE ClassFallbackText(FirstCode)

\* The first code has a generic message and its slot now holds an entry
\* of another checksum
C10_Witness ==
    \E t \in Threads :
        /\ FirstCodeRendered(t)
        /\ GenericField(FirstCode) > 0
        /\ ErrorRing[0].id # IdOf(FirstCode)
        /\ ERROR_GET_CLASS(ErrorRing[0].id) = ERROR_GET_CLASS(FirstCode)
        /\ lv[t].text = GenericFallbackText(FirstCode)

(***************************************************************************)
(* Properties of the chains under SpecChain                                *)
(***************************************************************************)
\* Every append so far and to come is built on the code returned before it
AllCite == \A i \in DOMAIN appends : appends[i].cite

\* Every append has a generic message of the table and no class
\* MPI_ERR_IN_STATUS
AllInTable ==
    \A i \in DOMAIN appends :
       /\ FindGenericMsgIndex(appends[i].generic_msg) >= 0
       /\ appends[i].error_class # MPI_ERR_IN_STATUS

\* The appends are made and the text of the code returned last was asked for
LastCodeRendered(t) ==
    /\ pc[t] = "returned"
    /\ lv[t].op = "get_string"
    /\ Len(chain) = Len(appends)
    /\ lv[t].errcode0 = LastCode

RECURSIVE EntryLines(_, _)
\* The lines of the entries k - 1 down to 0, each in the width the
\* longest location asks for
EntryLines(k, width) ==
    IF k = 0 THEN <<>>
    ELSE StackLine(ErrorRing[k - 1], width, MAX_ERRMSG_STRING).str
           \o EntryLines(k - 1, width)

\* The text of a code of K entries: the message of its class, the header
\* and K lines, the last one without its line end
TextOfEntries(errcode, k) ==
    LET width == 2 + Max(Len(ErrorRing[0].location),
                         Len(ErrorRing[k - 1].location))
        lines == EntryLines(k, width)
    IN  get_class_msg(ERROR_GET_CLASS(errcode)) \o ErrorStackStr
          \o SubSeq(lines, 1, Len(lines) - 1)

Combined(t) == pc[t] = "returned" /\ lv[t].op = "combine"

\* The ring holds what the call found
RingAsFound(t) == ringVars = lv[t].pre

\* A code with a ring entry of its own
RingCode(errcode) ==
    /\ errcode \in codes
    /\ FatalNeedsRing(errcode)
    /\ EntryMatches(ErrorRing,
                    convertErrcodeToIndexes(errcode, max_error_ring_loc))

\* C12: combine(success, x) = x and combine(x, success) = x for every code
\* x, and the ring is left as it was.
C12_SuccessIsIdentity ==
    \A t \in Threads :
       Combined(t) =>
         /\ lv[t].errcode0 = MPI_SUCCESS
               => (lv[t].ret = lv[t].errcode /\ RingAsFound(t))
         /\ lv[t].errcode = MPI_SUCCESS
               => (lv[t].ret = lv[t].errcode0 /\ RingAsFound(t))

\* Success was combined with a code that has a ring entry, on either side
C12_Witness ==
    /\ Combined("t1")
    /\ lv["t1"].errcode0 = MPI_SUCCESS
    /\ RingCode(lv["t1"].errcode)
    /\ lv["t1"].ret = lv["t1"].errcode
    /\ Len(chain) = MAX_ERROR_RING

\* C13: a dynamic error1 is returned whatever error2 is; a dynamic error2
\* is returned when error1 is neither success nor dynamic; the ring is
\* left as it was.
C13_DynamicWins ==
    \A t \in Threads :
       Combined(t) =>
         /\ DynBit(lv[t].errcode0)
               => (lv[t].ret = lv[t].errcode0 /\ RingAsFound(t))
         /\ (lv[t].errcode0 # MPI_SUCCESS /\ ~DynBit(lv[t].errcode0)
              /\ DynBit(lv[t].errcode))
               => (lv[t].ret = lv[t].errcode /\ RingAsFound(t))

\* A code with a ring entry was combined with a dynamic code whose other
\* fields name that entry
C13_Witness ==
    /\ Combined("t1")
    /\ RingCode(lv["t1"].errcode0)
    /\ lv["t1"].errcode = lv["t1"].errcode0 + ERROR_DYN_MASK
    /\ lv["t1"].ret = lv["t1"].errcode

\* The walk of the renderer from errcode in the ring rv (entries, cursor,
\* high-water mark): the entries it visits and the code it ends at
ChainWalk(errcode, rv) ==
    StackLines(errcode, rv[1], rv[3], 0, MAX_ERRMSG_STRING, WalkFuel)

\* errcode is neither success nor dynamic and its chain ends at success
ValidChain(errcode, rv) ==
    /\ errcode # MPI_SUCCESS
    /\ ~DynBit(errcode)
    /\ ChainWalk(errcode, rv).errcode = MPI_SUCCESS
    /\ Len(ChainWalk(errcode, rv).visited) <= MAX_ERROR_RING

\* The entries of two walks
SharedEntries(v, w) ==
    {v[i] : i \in DOMAIN v} \cap {w[j] : j \in DOMAIN w}

\* C14: for codes a and b that are not dynamic and whose chains end at
\* success and share no entry, the walk from combine(a, b) visits the
\* entries of a's chain and then the entries of b's chain, whatever the
\* classes of a and b are.
C14_CombineMergesChains ==
    \A t \in Threads :
       (Combined(t) /\ ValidChain(lv[t].errcode0, lv[t].pre)
        /\ ValidChain(lv[t].errcode, lv[t].pre)
        /\ SharedEntries(ChainWalk(lv[t].errcode0, lv[t].pre).visited,
                         ChainWalk(lv[t].errcode, lv[t].pre).visited) = {})
         => ChainWalk(lv[t].ret, ringVars).visited
              = ChainWalk(lv[t].errcode0, lv[t].pre).visited
                  \o ChainWalk(lv[t].errcode, lv[t].pre).visited

(***************************************************************************)
(* Properties of the fields of a code under SpecCodec                      *)
(***************************************************************************)
\* C15: MPIR_Err_is_fatal(code) is true exactly when the fatal bit of the
\* code is set and its dynamic bit is clear; a dynamic code is never fatal.
C15_IsFatalIffFatalNotDynamic ==
    \A t \in Threads :
       (pc[t] = "returned" /\ lv[t].op = "is_fatal")
         => /\ lv[t].out[1] = (lv[t].pre.fatal /\ ~lv[t].pre.dyn)
            /\ lv[t].out[1] = (FatalBit(lv[t].errcode)
                                /\ ~DynBit(lv[t].errcode))

\* A code with the fatal bit and the dynamic bit was asked about
C15_Witness ==
    /\ pc["t1"] = "returned"
    /\ lv["t1"].op = "is_fatal"
    /\ lv["t1"].pre.fatal
    /\ lv["t1"].pre.dyn
    /\ lv["t1"].out = <<FALSE>>

\* C16: taking apart the code packed from (class, generic index, ring
\* index, sequence, fatal, dynamic) gives these fields back, and the id
\* the decoder extracts is the id ErrcodeCreateID made of class, generic
\* index and sequence.
C16_CodecRoundTrip ==
    \A t \in Threads :
       (pc[t] = "returned" /\ lv[t].op = "unpack") => lv[t].out = lv[t].pre

\* The largest value of every field came back
C16_Witness ==
    /\ pc["t1"] = "returned"
    /\ lv["t1"].op = "unpack"
    /\ lv["t1"].pre.class = ERROR_CLASS_SIZE - 1
    /\ lv["t1"].pre.generic_idx = ERROR_GENERIC_SIZE - 2
    /\ lv["t1"].pre.ring_idx = ERROR_SPECIFIC_INDEX_SIZE - 1
    /\ lv["t1"].pre.seq = ERROR_SPECIFIC_SEQ_SIZE - 1
    /\ lv["t1"].pre.fatal
    /\ lv["t1"].pre.dyn
    /\ lv["t1"].out = lv["t1"].pre

(***************************************************************************)
(* Properties of checkErrcodeIsValid, checkForUserErrcode and the appends  *)
(* under SpecChain                                                         *)
(***************************************************************************)
\* MPIR_Err_create_code has validated lastcode (errcode0), which is not
\* success, and the ring is the one the validation read
Validated(t) ==
    /\ lv[t].op = "create"
    /\ pc[t] \in {"cc_lock", "returned"}
    /\ pc[t] = "returned" => lv[t].ret = MPI_ERR_IN_STATUS
    /\ lv[t].errcode0 # MPI_SUCCESS

\* The validation accepted the code: it is kept as the previous code
Accepted(t) == lv[t].lastcode = lv[t].errcode0

\* The ring index of the code lies in [0, high-water mark] and the slot
\* holds the id recomputed from the code
InRangeAndSameId(errcode) ==
    /\ SpecificIndexField(errcode) \in 0 .. max_error_ring_loc
    /\ SpecificIndexField(errcode) \in DOMAIN ErrorRing
    /\ ErrorRing[SpecificIndexField(errcode)].id
         = ERROR_GET_CLASS(errcode)
             + GenericField(errcode) * ERROR_GENERIC_SHIFT
             + SpecificSeqField(errcode) * ERROR_SPECIFIC_SEQ_SHIFT

\* C17 as stated: a code is accepted only if its ring index lies in
\* [0, high-water mark] and the slot holds the id recomputed from the code.
C17_AcceptedOnlyIfInRangeAndSameId ==
    \A t \in Threads :
       (Validated(t) /\ Accepted(t)) => InRangeAndSameId(lv[t].errcode0)

\* C17 amended: a code that is a valid class by itself is accepted with no
\* look at the ring; any other code is accepted only if its ring index
\* lies in [0, high-water mark] and the slot holds the id recomputed from
\* the code; a code that fails one of the two is not accepted, the walk of
\* the renderer from it visits no entry, and the cursor and the high-water
\* mark never leave the ring.
C17_AcceptedOnlyIfClassOrInRangeAndSameId ==
    /\ error_ring_loc \in DOMAIN ErrorRing
    /\ max_error_ring_loc \in DOMAIN ErrorRing
    /\ \A t \in Threads :
          Validated(t) =>
            IF is_valid_error_class(lv[t].errcode0)
            THEN Accepted(t)
            ELSE /\ Accepted(t) => InRangeAndSameId(lv[t].errcode0)
                 /\ ~InRangeAndSameId(lv[t].errcode0)
                      => /\ ~Accepted(t)
                         /\ ChainWalk(lv[t].errcode0, ringVars).visited = <<>>

\* The first append named a code whose ring index is beyond the
\* high-water mark and got no previous code; the second append names the
\* code of the first, which is accepted
C17_Witness ==
    /\ Len(appends) = 2
    /\ ~appends[1].cite
    /\ appends[1].lastcode = Forged(1)
    /\ ErrorRing[0].prev_error = MPI_SUCCESS
    /\ pc["t1"] = "cc_lock"
    /\ Validated("t1")
    /\ Accepted("t1")
    /\ lv["t1"].errcode0 = chain[1]
    /\ ~is_valid_error_class(lv["t1"].errcode0)
    /\ InRangeAndSameId(lv["t1"].errcode0)

\* MPIR_Err_return_win has returned what checkForUserErrcode made of the
\* code it was given (errcode0)
UserCodeReturned(t) == pc[t] = "returned" /\ lv[t].op = "dispatch"

\* The entry of the code validates and holds a user error code
HoldsUserCode(errcode) ==
    /\ errcode # MPI_SUCCESS
    /\ InRangeAndSameId(errcode)
    /\ ErrorRing[SpecificIndexField(errcode)].use_user_error_code = 1

\* The user error code of the entry of the code
UserCodeOf(errcode) ==
    ErrorRing[SpecificIndexField(errcode)].user_error_code

\* C18 as stated: getUserCode returns the user error code of the entry of
\* the code when the entry validates and holds one, the code itself in
\* every other case, and leaves the ring as it was.
C18_UserCodeOfValidEntry ==
    \A t \in Threads :
       UserCodeReturned(t) =>
         /\ RingAsFound(t)
         /\ lv[t].ret = IF HoldsUserCode(lv[t].errcode0)
                        THEN UserCodeOf(lv[t].errcode0)
                        ELSE lv[t].errcode0

\* C18 amended: the same, with the user error code returned only for a
\* code that carries a generic index.
C18_UserCodeOfValidEntryWithGeneric ==
    \A t \in Threads :
       UserCodeReturned(t) =>
         /\ RingAsFound(t)
         /\ lv[t].ret = IF HoldsUserCode(lv[t].errcode0)
                           /\ GenericField(lv[t].errcode0) > 0
                        THEN UserCodeOf(lv[t].errcode0)
                        ELSE lv[t].errcode0

\* The user error code of an entry was returned in place of its code
C18_Witness ==
    /\ UserCodeReturned("t1")
    /\ HoldsUserCode(lv["t1"].errcode0)
    /\ lv["t1"].ret = UserCodeOf(lv["t1"].errcode0)
    /\ lv["t1"].ret # lv["t1"].errcode0
    /\ lv["t1"].ret \in CreateUserCodes

\* The first append made an entry with a user error code and every later
\* append is built on the code returned before it
OnUserCodeEntry ==
    /\ Len(appends) >= 2
    /\ appends[1].generic_msg = USER_KEY
    /\ \A i \in 2 .. Len(appends) : appends[i].cite

\* Every later append makes an entry, has a generic message of the table
\* and brings no user error code of its own
PlainAppendsOnTop ==
    \A i \in 2 .. Len(appends) :
       /\ appends[i].error_class # MPI_ERR_IN_STATUS
       /\ FindGenericMsgIndex(appends[i].generic_msg) >= 0
       /\ appends[i].generic_msg # USER_KEY

\* The appends are made and MPIR_Err_return_win was given the code
\* returned last
LastCodeReturned(t) ==
    /\ UserCodeReturned(t)
    /\ Len(chain) = Len(appends)
    /\ lv[t].errcode0 = LastCode

\* Every entry of the chain holds the user error code of the first, and
\* it is what the call returned
UserCodeCarried(t) ==
    /\ \A i \in 0 .. Len(appends) - 1 :
          /\ ErrorRing[i].use_user_error_code = 1
          /\ ErrorRing[i].user_error_code = ErrorRing[0].user_error_code
    /\ lv[t].ret = ErrorRing[0].user_error_code

SentinelAppendReturned(t) ==
    /\ pc[t] = "returned"
    /\ lv[t].op = "create"
    /\ \/ appends[ncreates].error_class = MPI_ERR_IN_STATUS
       \/ /\ appends[ncreates].error_class = MPI_ERR_OTHER
          /\ Accepted(t)
          /\ ERROR_GET_CLASS(lv[t].errcode0) = MPI_ERR_IN_STATUS

\* C20: an append whose class is MPI_ERR_IN_STATUS, asked for or taken
\* from the previous code by an append of class MPI_ERR_OTHER, returns
\* the class MPI_ERR_IN_STATUS and nothing else, and leaves the cursor,
\* the high-water mark and every ring entry as they were.
C20_SentinelNeverDecorated ==
    \A t \in Threads :
       SentinelAppendReturned(t)
         => (lv[t].ret = MPI_ERR_IN_STATUS /\ RingAsFound(t))

\* An append of class MPI_ERR_OTHER on top of the code MPI_ERR_IN_STATUS
\* returned MPI_ERR_IN_STATUS
C20_Witness ==
    /\ SentinelAppendReturned("t1")
    /\ appends[ncreates].error_class = MPI_ERR_OTHER
    /\ lv["t1"].errcode0 = MPI_ERR_IN_STATUS
    /\ lv["t1"].ret = MPI_ERR_IN_STATUS
    /\ RingAsFound("t1")

(***************************************************************************)
(* Properties of the entry of the dispatch under SpecDispatch              *)
(***************************************************************************)
\* The call is past checkValidErrcode and before checkForUserErrcode
\* changes the code
AfterRepair(t) ==
    /\ lv[t].op = "dispatch"
    /\ pc[t] \in {"fatal", "comm_own", "comm_own_rd", "comm_fb", "comm_lock",
                  "comm_rd", "user_lock", "user_body"}

\* C21: the dispatch replaces the class bits of a code whose class is not
\* valid (is_valid_error_class) by MPI_ERR_UNKNOWN and keeps the other bits;
\* it leaves a code with a valid class as it is; the repair by itself does
\* not lead to the fatal path.
C21_InvalidClassRepaired ==
    \A t \in Threads :
        LET c0 == lv[t].errcode0
        IN  /\ AfterRepair(t) =>
                 lv[t].errcode = IF is_valid_error_class(ERROR_GET_CLASS(c0))
                                 THEN c0
                                 ELSE SetClass(c0, MPI_ERR_UNKNOWN)
            /\ (lv[t].op = "dispatch" /\ lv[t].was_init
                  /\ ~is_valid_error_class(ERROR_GET_CLASS(c0))
                  /\ ~FatalBit(c0)
                  /\ ~NoHandlerOrFatal(ResolvedHandler(lv[t].entry, lv[t].obj)))
                 => ~OnFatalPath(t)

\* The call is one the handlers MPI_ERRORS_RETURN and
\* MPIR_ERRORS_THROW_EXCEPTIONS decide: one of them resolves, the code is
\* not fatal and its class is valid
ReturnHandlerCall(t) ==
    /\ lv[t].op = "dispatch"
    /\ lv[t].was_init \/ ReturningSessionInit(lv[t])
    /\ ResolvedHandler(lv[t].entry, lv[t].obj) \in {"RETURN", "THROW"}
    /\ ~MPIR_Err_is_fatal(lv[t].errcode0)
    /\ is_valid_error_class(ERROR_GET_CLASS(lv[t].errcode0))

\* What checkForUserErrcode yields for the code the call was made with, in
\* the ring the call found
UserCodeFor(t) == UserErrcodeOf(lv[t].errcode0, lv[t].pre[1], lv[t].pre[3])

\* No user handler is called, the fatal path is not entered, the ring is as
\* the call found it
NoCallbackRingKept(t) ==
    /\ lv[t].cb = NoCall
    /\ pc[t] # "callback"
    /\ ~OnFatalPath(t)
    /\ ringVars = lv[t].pre

\* C22: with MPI_ERRORS_RETURN or MPIR_ERRORS_THROW_EXCEPTIONS resolved, a
\* code that is not fatal and has a valid class is returned by every
\* MPIR_Err_return_xxx routine as checkForUserErrcode yields it; no user
\* handler is called and the ring is unchanged.
C22_ReturnHandlerYieldsUserCode ==
    \A t \in Threads :
        ReturnHandlerCall(t) =>
            /\ NoCallbackRingKept(t)
            /\ pc[t] = "returned" => lv[t].ret = UserCodeFor(t)

\* C22 (amended): as C22, except that MPIR_Err_return_session_init called
\* with MPI_ERRORS_RETURN or MPIR_ERRORS_THROW_EXCEPTIONS returns the code
\* itself, with no user error code put in its place.
C22_ReturnHandlerYieldsUserCodeButSessionInit ==
    \A t \in Threads :
        ReturnHandlerCall(t) =>
            /\ NoCallbackRingKept(t)
            /\ pc[t] = "returned" =>
                 lv[t].ret = IF ReturningSessionInit(lv[t])
                             THEN lv[t].errcode0
                             ELSE UserCodeFor(t)

\* MPIR_Err_return_win returns the user error code of the entry of a code,
\* for a window whose handler is MPIR_ERRORS_THROW_EXCEPTIONS
C22_Witness ==
    \E t \in Threads :
        /\ ReturnHandlerCall(t)
        /\ pc[t] = "returned"
        /\ lv[t].entry = "win"
        /\ lv[t].ret = UserCodeFor(t)
        /\ lv[t].ret # lv[t].errcode0

(***************************************************************************)
(* Properties of the initialization under SpecInit                         *)
(***************************************************************************)
\* C23: the mutex of the ring is created once and the width of the lines
\* is derived once: a call of MPIR_Err_init made after the first one has
\* completed creates no mutex and derives no width.
C23_InitializedOnce ==
    /\ err_init_runs.mutex <= 1
    /\ err_init_runs.chop <= 1

(***************************************************************************)
(* The outcome of a call of an MPIR_Err_return_xxx routine: MPID_Abort, or *)
(* the value returned and the call of the user handler made before.        *)
(***************************************************************************)
Outcome(t) ==
    [kind |-> pc[t],
     ret |-> IF pc[t] = "returned" THEN lv[t].ret ELSE 0,
     cb |-> lv[t].cb]

\* The outcome handler h gives to the code of the call, when h is the
\* handler of the object with handle `handle`
HandlerOutcome(t, h, handle) ==
    LET c == RepairedCode(lv[t])
        uc == UserErrcodeOf(c, lv[t].pre[1], lv[t].pre[3])
    IN  IF ~lv[t].was_init \/ MPIR_Err_is_fatal(c) \/ NoHandlerOrFatal(h)
        THEN [kind |-> "aborted", ret |-> 0, cb |-> NoCall]
        ELSE IF h \in {"RETURN", "THROW"}
        THEN [kind |-> "returned", ret |-> uc, cb |-> NoCall]
        ELSE [kind |-> "returned", ret |-> MPI_SUCCESS,
              cb |-> [language |-> IF h = "USER_C" THEN "MPIR_LANG__C"
                                   ELSE "MPIR_LANG__X",
                      handle |-> handle,
                      errcode |-> uc]]

\* The outcome of MPIR_Err_return_comm(NULL, fcname, errcode): the handler
\* of MPI_COMM_SELF, else of MPI_COMM_WORLD, else none
CommNullOutcome(t) ==
    IF comm_self # "NULL" /\ CommHandler[comm_self] # "NULL"
    THEN HandlerOutcome(t, CommHandler[comm_self], comm_self)
    ELSE IF comm_world # "NULL" /\ CommHandler[comm_world] # "NULL"
    THEN HandlerOutcome(t, CommHandler[comm_world], comm_world)
    ELSE HandlerOutcome(t, "NULL", "NULL")

\* The outcome of MPIR_Err_return_session(session_ptr, fcname, errcode)
SessionOutcome(t, session_ptr) ==
    IF session_ptr # "NULL" /\ SessionRef[session_ptr] > 0
       /\ SessionHandler[session_ptr] # "NULL"
    THEN HandlerOutcome(t, SessionHandler[session_ptr], session_ptr)
    ELSE CommNullOutcome(t)

\* The call is over
Ended(t) == lv[t].op = "dispatch" /\ pc[t] \in {"returned", "aborted"}

\* The calls the claim says go the way of the communicator with no
\* communicator, and that call itself
ToCommNull(l) ==
    \/ l.entry = "comm" /\ l.obj = "NULL"
    \/ l.entry = "win" /\ (l.obj = "NULL" \/ WinHandler[l.obj] = "NULL")
    \/ l.entry = "session"
         /\ (l.obj = "NULL" \/ SessionRef[l.obj] <= 0
               \/ SessionHandler[l.obj] = "NULL")
    \/ l.entry = "group" /\ (l.obj = "NULL" \/ GroupSession[l.obj] = "NULL")

\* C27: MPIR_Err_return_win on a window without handler,
\* MPIR_Err_return_session on no session, a released session or a session
\* without handler, and MPIR_Err_return_group on no group or a group
\* without session end as MPIR_Err_return_comm(NULL, ...) ends for the same
\* code; MPIR_Err_return_group on a group with a session ends as
\* MPIR_Err_return_session ends on that session.
C27_DelegationSameOutcome ==
    \A t \in Threads :
        Ended(t) =>
            /\ ToCommNull(lv[t]) => Outcome(t) = CommNullOutcome(t)
            /\ (lv[t].entry = "session" /\ lv[t].obj # "NULL") =>
                 Outcome(t) = SessionOutcome(t, lv[t].obj)
            /\ (lv[t].entry = "group" /\ lv[t].obj # "NULL"
                  /\ GroupSession[lv[t].obj] # "NULL") =>
                 Outcome(t) = SessionOutcome(t, GroupSession[lv[t].obj])

\* MPIR_Err_return_group on a group whose session holds a user handler has
\* called the handler with the handle of the session
C27_Witness ==
    \E t \in Threads :
        /\ Ended(t)
        /\ lv[t].entry = "group"
        /\ lv[t].obj = "gUC"
        /\ lv[t].cb.handle = "sUC"
        /\ Outcome(t) = SessionOutcome(t, "sUC")

(***************************************************************************)
(* Properties of MPIR_Err_combine_codes on broken chains under SpecChain   *)
(***************************************************************************)
\* A call of MPIR_Err_combine_codes that went to the ring has returned
CombinedInRing(t) ==
    /\ Combined(t)
    /\ ~CombineEarly(lv[t].errcode0, lv[t].errcode)[1]

RECURSIVE BrokenChain(_, _, _, _)
\* The links from errcode in ring reach a link that is out of range, has no
\* generic message or holds another id before they reach MPI_SUCCESS
BrokenChain(errcode, ring, maxloc, fuel) ==
    LET c == convertErrcodeToIndexes(errcode, maxloc) IN
    IF errcode = MPI_SUCCESS \/ fuel = 0 THEN FALSE
    ELSE IF c.rc # 0 \/ c.generic_idx < 0 \/ ring[c.ring_idx].id # c.ring_id
    THEN TRUE
    ELSE BrokenChain(ring[c.ring_idx].prev_error, ring, maxloc, fuel - 1)

\* error1 as MPIR_Err_combine_codes returns it: the class of error2 (or
\* MPI_ERR_OTHER for a class beyond MPICH_ERR_LAST_MPIX) in place of the
\* class MPI_ERR_OTHER
Promoted(error1, error2) ==
    IF ERROR_GET_CLASS(error1) # MPI_ERR_OTHER THEN error1
    ELSE IF ERROR_GET_CLASS(error2) > MPICH_ERR_LAST_MPIX
    THEN error1
    ELSE error1 - MPI_ERR_OTHER + ERROR_GET_CLASS(error2)

\* C28: when the chain of error1 does not end at MPI_SUCCESS (a link is out
\* of range, has no generic message or holds another id), combine stores
\* error2 in no entry: the only fields of the ring that change are the class
\* bits of links of class MPI_ERR_OTHER, no link that held MPI_SUCCESS
\* changes, and error1 is returned, with the class of error2 when its class
\* was MPI_ERR_OTHER.
C28_BrokenChainNoAppend ==
    \A t \in Threads :
       (CombinedInRing(t)
        /\ BrokenChain(lv[t].errcode0, lv[t].pre[1], lv[t].pre[3], WalkFuel))
         => /\ lv[t].ret = Promoted(lv[t].errcode0, lv[t].errcode)
            /\ error_ring_loc = lv[t].pre[2]
            /\ max_error_ring_loc = lv[t].pre[3]
            /\ \A i \in DOMAIN ErrorRing :
                  \/ ErrorRing[i] = lv[t].pre[1][i]
                  \/ /\ lv[t].pre[1][i].prev_error # MPI_SUCCESS
                     /\ ERROR_GET_CLASS(lv[t].pre[1][i].prev_error) = MPI_ERR_OTHER
                     /\ ErrorRing[i] =
                          [lv[t].pre[1][i] EXCEPT !.prev_error =
                             Promoted(lv[t].pre[1][i].prev_error, lv[t].errcode)]

\* combine returned on a chain whose first link is an entry of the ring and
\* whose second link holds another id
C28_Witness ==
    \E t \in Threads :
       /\ CombinedInRing(t)
       /\ RingCode(lv[t].errcode0)
       /\ BrokenChain(lv[t].errcode0, lv[t].pre[1], lv[t].pre[3], WalkFuel)
       /\ lv[t].errcode \in codes

\* C29: for a and b that are neither MPI_SUCCESS nor dynamic, combine(a, b)
\* is a when the class of a is not MPI_ERR_OTHER, and else a with the class
\* of b (MPI_ERR_OTHER when the class of b is beyond MPICH_ERR_LAST_MPIX);
\* the fatal bit, the generic index, the ring index and the sequence number
\* of a are kept, whatever the fatal bit of b is.
C29_CombineChangesClassOnly ==
    \A t \in Threads :
       CombinedInRing(t)
         => /\ lv[t].ret = Promoted(lv[t].errcode0, lv[t].errcode)
            /\ FatalBit(lv[t].ret) = FatalBit(lv[t].errcode0)
            /\ GenericField(lv[t].ret) = GenericField(lv[t].errcode0)
            /\ SpecificIndexField(lv[t].ret) = SpecificIndexField(lv[t].errcode0)
            /\ SpecificSeqField(lv[t].ret) = SpecificSeqField(lv[t].errcode0)
            /\ ERROR_GET_CLASS(lv[t].errcode0) # MPI_ERR_OTHER
                 => lv[t].ret = lv[t].errcode0

\* combine returned for a of class MPI_ERR_OTHER without the fatal bit and b
\* with the fatal bit
C29_Witness ==
    \E t \in Threads :
       /\ CombinedInRing(t)
       /\ ERROR_GET_CLASS(lv[t].errcode0) = MPI_ERR_OTHER
       /\ ~FatalBit(lv[t].errcode0)
       /\ FatalBit(lv[t].errcode)
       /\ ERROR_GET_CLASS(lv[t].errcode) # MPI_ERR_OTHER

\* combine returned for a of class MPI_ERR_OTHER and b whose class is beyond
\* MPICH_ERR_LAST_MPIX
C29_WitnessClassBeyond ==
    \E t \in Threads :
       /\ CombinedInRing(t)
       /\ ERROR_GET_CLASS(lv[t].errcode0) = MPI_ERR_OTHER
       /\ ERROR_GET_CLASS(lv[t].errcode) > MPICH_ERR_LAST_MPIX

(***************************************************************************)
(* Properties of the lookup of a message key under SpecLookup              *)
(***************************************************************************)
\* A lookup has returned
Looked(t) == pc[t] = "returned" /\ lv[t].op = "lookup"

\* The index (0-based) of the entry of table whose key is msg, or -1
ExactMatch(table, msg) ==
    IF \E i \in DOMAIN table : table[i].short_name = msg
    THEN (CHOOSE i \in DOMAIN table : table[i].short_name = msg) - 1
    ELSE -1

\* name begins with msg
BeginsWith(name, msg) ==
    Len(msg) <= Len(name) /\ SubSeq(name, 1, Len(msg)) = msg

\* The entries of table (0-based) whose sentinels were overwritten
Corrupted(table) == {i - 1 : i \in {k \in DOMAIN table : ~table[k].intact}}

\* C30: on a sorted table with intact sentinels the lookup returns the
\* index of the entry whose key is the requested key, or -1 when no entry
\* has it, and it leaves entries uncompared only after a match or after a
\* greater entry that does not begin with the requested key; when the scan
\* reaches an entry with an overwritten sentinel before a match it returns
\* -1 and compares neither that entry nor a later one.
C30_LookupIsExactMatch ==
    \A t \in Threads :
       Looked(t) =>
         LET table == lv[t].pre
             msg == lv[t].msg
             found == lv[t].generic_idx
             compared == lv[t].out
             last == Len(table) - 1
         IN  /\ Corrupted(table) = {}
                  => /\ found = ExactMatch(table, msg)
                     /\ \A i \in 0 .. last :
                          (i \in compared /\ i + 1 \notin compared /\ i < last)
                            => \/ table[i + 1].short_name = msg
                               \/ /\ strcmp(table[i + 1].short_name, msg) > 0
                                  /\ ~BeginsWith(table[i + 1].short_name, msg)
             /\ \A k \in Corrupted(table) :
                  (\A i \in 0 .. k - 1 :
                      i \in compared /\ table[i + 1].short_name # msg)
                    => /\ found = -1
                       /\ \A i \in k .. last : i \notin compared

\* A lookup on a table with intact sentinels passed an entry that is
\* greater than the key and begins with it, and failed at the next one
C30_Witness ==
    \E t \in Threads :
       /\ Looked(t)
       /\ Corrupted(lv[t].pre) = {}
       /\ lv[t].generic_idx = -1
       /\ lv[t].out = {0, 1}
       /\ Len(lv[t].pre) = 3
       /\ strcmp(lv[t].pre[1].short_name, lv[t].msg) > 0

\* A lookup stopped at an overwritten sentinel of an entry that holds the
\* requested key
C30_WitnessSentinel ==
    \E t \in Threads :
       /\ Looked(t)
       /\ lv[t].out = {0}
       /\ 1 \in Corrupted(lv[t].pre)
       /\ lv[t].pre[2].short_name = lv[t].msg
       /\ lv[t].generic_idx = -1

(***************************************************************************)
(* Properties of vsnprintf_mpi under SpecFormat                            *)
(***************************************************************************)
\* A call of vsnprintf_mpi has returned
Formatted(t) == pc[t] = "returned" /\ lv[t].op = "format"

\* No byte at or beyond the bound was written
WritesWithin(t) == lv[t].out.written \subseteq 0 .. lv[t].pre.maxlen - 1

\* One of the bytes below the bound is 0
EndsWithin(t) == \E i \in 0 .. lv[t].pre.maxlen - 1 : lv[t].out.buf[i] = 0

\* The text before the first directive of the template fills the bound
LiteralFills(t) ==
    /\ FirstPercent(lv[t].pre.fmt) > 0
    /\ FirstPercent(lv[t].pre.fmt) - 1 >= lv[t].pre.maxlen

\* The text the buffer holds: the bytes before the first 0
OutText(t) ==
    LET cur == [lv[t].out EXCEPT !.str = 0] IN
    [i \in 1 .. StrLen(cur) |-> cur.buf[i - 1]]

C24_WitnessCut ==
    \E t \in Threads :
       /\ Formatted(t)
       /\ lv[t].pre.fmt = <<97, 98, 99, 100, 37, 115>>
       /\ lv[t].pre.maxlen = 6
       /\ OutText(t) = <<97, 98, 99, 100, 120>>

(***************************************************************************)
(* Properties of the bytes of MPIR_Err_get_string under SpecText           *)
(***************************************************************************)
\* A call of MPIR_Err_get_string has returned
Texted(t) == pc[t] = "returned" /\ lv[t].op = "text"

\* C25: for every size of the buffer from 0 on, every chain and every
\* setting of MPIR_CVAR_CHOP_ERROR_STACK, MPIR_Err_get_string writes only
\* bytes of the buffer.
C25_WritesInsideBuffer ==
    \A t \in Threads :
       Texted(t) => lv[t].out.written \subseteq 0 .. lv[t].pre.length - 1

\* A call of MPIR_Err_get_string with MPIR_CVAR_PRINT_ERROR_STACK false has
\* returned for a code with an entry in the ring
Compact(t) ==
    /\ Texted(t)
    /\ ~MPIR_CVAR_PRINT_ERROR_STACK
    /\ lv[t].pre.length > 0
    /\ FatalNeedsRing(lv[t].errcode0)

\* The entries of the chain of the code, first to last
Visited(t) == ChainWalk(lv[t].errcode0, ringVars).visited

RECURSIVE Fragments(_)
\* ", {message}" for each of the entries
Fragments(entries) ==
    IF entries = <<>> THEN <<>>
    ELSE <<44, 32>> \o ErrorRing[Head(entries)].msg \o Fragments(Tail(entries))

\* C26 as stated: with MPIR_CVAR_PRINT_ERROR_STACK false, the text of a
\* chain of K valid entries in a buffer that holds it all is the message of
\* the class and K fragments ", {message}", one per entry from the code to
\* the root.
C26_CompactIsAllMessages ==
    \A t \in Threads :
       (Compact(t) /\ ValidChain(lv[t].errcode0, ringVars)
        /\ lv[t].pre.length = MaxTextLen)
         => OutText(t) = get_class_msg(ERROR_GET_CLASS(lv[t].errcode0))
                           \o Fragments(Visited(t))

\* C26 amended: with MPIR_CVAR_PRINT_ERROR_STACK false, the text is the
\* message of the class and one fragment ", {message}", that of the last
\* entry of the chain (each fragment is written over the one before), cut
\* to the buffer; it holds no location and no line end.
C26_CompactIsLastMessage ==
    \A t \in Threads :
       Compact(t)
         => /\ OutText(t) =
                 Truncate(get_class_msg(ERROR_GET_CLASS(lv[t].errcode0))
                            \o (IF Visited(t) = <<>> THEN <<>>
                                ELSE Fragments(<<Visited(t)[Len(Visited(t))]>>)),
                          lv[t].pre.length)
            /\ \A i \in DOMAIN OutText(t) : OutText(t)[i] \notin {10, 40}
            /\ lv[t].out.written \subseteq 0 .. lv[t].pre.length - 1

\* A chain of two entries with the messages "A" and "ab" was written with
\* MPIR_CVAR_PRINT_ERROR_STACK false into a buffer that holds both
C26_Witness ==
    \E t \in Threads :
       /\ Compact(t)
       /\ ValidChain(lv[t].errcode0, ringVars)
       /\ lv[t].pre.length = MaxTextLen
       /\ Len(Visited(t)) = 2
       /\ ErrorRing[Visited(t)[1]].msg = <<65>>
       /\ ErrorRing[Visited(t)[2]].msg = <<97, 98>>
       /\ OutText(t) = <<65, 44, 32, 97, 98>>

(***************************************************************************)
(* Properties of the cursor and of the entries under SpecWrap              *)
(***************************************************************************)
\* Thread t stores the cursor, the high-water mark and its entry
Appends(t) == pc[t] = "cc_write" /\ pc'[t] = "cc_unlock"

\* C31: in every state 0 <= error_ring_loc <= max_error_ring_loc <=
\* MAX_ERROR_RING - 1; max_error_ring_loc never decreases; every append
\* moves error_ring_loc on by one modulo MAX_ERROR_RING and nothing else
\* moves it.
C31_CursorWithinMark ==
    /\ [](/\ 0 <= error_ring_loc
          /\ error_ring_loc <= max_error_ring_loc
          /\ max_error_ring_loc <= MAX_ERROR_RING - 1)
    /\ [][/\ max_error_ring_loc' >= max_error_ring_loc
          /\ \A t \in Threads :
                Appends(t)
                  => error_ring_loc' = (error_ring_loc + 1) % MAX_ERROR_RING
          /\ error_ring_loc' # error_ring_loc
               => \E t \in Threads : Appends(t)]_vars

\* The cursor is back at 0 after MAX_ERROR_RING appends
C31_Witness ==
    /\ ncreates = MAX_ERROR_RING
    /\ error_ring_loc = 0
    /\ max_error_ring_loc = MAX_ERROR_RING - 1
    /\ \A i \in DOMAIN ErrorRing : ErrorRing[i].id # 0

(***************************************************************************)
(* Properties of the links after MPIR_Err_combine_codes under SpecChain    *)
(***************************************************************************)
\* C32: after any appends and combines, the links from every code a call
\* returned lead to MPI_SUCCESS or to a link no walk follows within
\* MAX_ERROR_RING steps, and no walk of MPIR_Err_combine_codes or
\* MPIR_Err_get_string goes on for ever.
C32_LinksEnd ==
    /\ \A t \in Threads : pc[t] # "hung"
    /\ \A errcode \in codes :
          ~WalkDiverges(errcode, ErrorRing, max_error_ring_loc, WalkFuel)


(***************************************************************************)
(* The code MPIR_Err_create_code returns, checked at once.                 *)
(***************************************************************************)
\* An append has returned a code other than MPI_ERR_IN_STATUS
Created(t) ==
    /\ pc[t] = "returned"
    /\ lv[t].op = "create"
    /\ lv[t].ret # MPI_ERR_IN_STATUS

\* C33: a code MPIR_Err_create_code has just returned (not
\* MPI_ERR_IN_STATUS, class within the class field) is valid: the ring
\* index in it is the slot the call wrote, the index is within
\* 0 .. max_error_ring_loc, and the id made of the class, generic index
\* and sequence number of the code is the id the slot holds
C33_FreshCodeValidates ==
    \A t \in Threads :
      Created(t) /\ lv[t].error_class < ERROR_CLASS_SIZE =>
        LET c == convertErrcodeToIndexes(lv[t].ret, max_error_ring_loc) IN
          /\ c.ring_idx = lv[t].ring_idx
          /\ c.rc = 0
          /\ 0 <= c.ring_idx /\ c.ring_idx <= max_error_ring_loc
          /\ ErrorRing[c.ring_idx].id = c.ring_id
          /\ checkErrcodeIsValid(lv[t].ret, ErrorRing, max_error_ring_loc) = 0

\* The last slot of the ring was written after the cursor had wrapped, by
\* a call whose generic message the table holds
C33_Witness ==
    /\ Created("t1")
    /\ ncreates = MAX_ERROR_RING + 1
    /\ lv["t1"].ring_idx = 0
    /\ max_error_ring_loc = MAX_ERROR_RING - 1
    /\ lv["t1"].generic_idx >= 0
    /\ lv["t1"].ring_seq > 0

\* A code of the last slot, returned before the ring wrapped
C33_WitnessLastSlot ==
    /\ Created("t1")
    /\ lv["t1"].ring_idx = MAX_ERROR_RING - 1
    /\ error_ring_loc = 0
    /\ lv["t1"].generic_idx = -1


(***************************************************************************)
(* The specification of the fatal bit: one thread makes up to              *)
(* MAX_ERROR_RING + 1 appends, fatal or not, on the code returned last, on *)
(* MPI_SUCCESS, or on a fatal code nobody returned.                        *)
(***************************************************************************)
InheritArgs ==
    LET Arg(class, generic, specific, cite, lastcode, fatal) ==
          [error_class |-> class, generic_msg |-> generic,
           specific_msg |-> specific, cite |-> cite, lastcode |-> lastcode,
           fatal |-> fatal]
    IN  { Arg(MPI_ERR_BUFFER, <<42, 42, 102>>, <<97, 98>>, TRUE, 0, FALSE),
          Arg(MPI_ERR_BUFFER, <<42, 42, 102>>, <<97, 98>>, TRUE, 0, TRUE),
          Arg(MPI_ERR_INTERN, <<42, 42, 102>>, <<97, 98>>, FALSE, MPI_SUCCESS,
              TRUE),
          Arg(MPI_ERR_BUFFER, <<42, 42, 102>>, <<97, 99>>, FALSE,
              SetFatal(Forged(0)), FALSE),
          Arg(MPI_ERR_OTHER, <<42, 42, 97>>, NULL_STR, FALSE,
              SetFatal(Forged(1)), FALSE),
          Arg(MPI_ERR_BUFFER, <<42, 42, 102>>, <<97, 98>>, FALSE,
              MPI_ERR_BUFFER + ERROR_FATAL_MASK, FALSE) }

InitInherit ==
    /\ ErrorRing = [i \in 0 .. MAX_ERROR_RING - 1 |-> ZeroEntry]
    /\ error_ring_loc = 0
    /\ max_error_ring_loc = 0
    /\ did_err_init = TRUE
    /\ mpich_state = "INITIALIZED"
    /\ MPIR_CVAR_PRINT_ERROR_STACK = TRUE
    /\ MPIR_CVAR_CHOP_ERROR_STACK = 0
    /\ err_init_runs = [mutex |-> 1, chop |-> 0]
    /\ error_ring_mutex = "free"
    /\ comm_mutex = [c \in DOMAIN CommHandler |-> "free"]
    /\ comm_self = "selfN"
    /\ comm_world = "worldN"
    /\ pc = [t \in Threads |-> "idle"]
    /\ lv = [t \in Threads |-> NoLocals]
    /\ codes = {}
    /\ ncreates = 0
    /\ ndispatches = 0
    /\ appends \in UNION {[1 .. k -> InheritArgs] : k \in 1 .. MAX_ERROR_RING + 1}
    /\ chain = <<>>
    /\ aborted = "no"

NextInherit ==
    \/ ChainCreateBegin("t1")
    \/ CreateLock("t1")
    \/ CreateRead("t1")
    \/ CreateWrite("t1")
    \/ CreateUnlock("t1")
    \/ ChainReturn("t1")

SpecInherit == InitInherit /\ [][NextInherit]_vars

\* The call has checked its lastcode and not written its entry yet
Checked(t) == pc[t] \in {"cc_lock", "cc_read", "cc_write"}

\* The lastcode the call was given passed checkErrcodeIsValid
PassedValidation(t) == lv[t].lastcode = lv[t].errcode0

\* C34: the fatal bit is inherited along a chain.  A lastcode that fails
\* checkErrcodeIsValid is replaced by MPI_SUCCESS; the code returned (not
\* MPI_ERR_IN_STATUS) has the fatal bit iff the fatal argument is true or
\* lastcode passed the check and MPIR_Err_is_fatal(lastcode); the entry of
\* a call whose lastcode failed the check has no previous code
C34_FatalInherited ==
    \A t \in Threads :
      /\ Checked(t) =>
           lv[t].lastcode =
             IF lv[t].errcode0 # MPI_SUCCESS
                /\ checkErrcodeIsValid(lv[t].errcode0, ErrorRing,
                                       max_error_ring_loc) # 0
             THEN MPI_SUCCESS
             ELSE lv[t].errcode0
      /\ Created(t) =>
           /\ FatalBit(lv[t].ret) <=>
                \/ lv[t].fatal
                \/ PassedValidation(t) /\ MPIR_Err_is_fatal(lv[t].errcode0)
           /\ ErrorRing[lv[t].ring_idx].prev_error =
                IF PassedValidation(t) THEN lv[t].errcode0 ELSE MPI_SUCCESS

\* A call that is not fatal returns a fatal code: its lastcode is one
C34_Witness ==
    /\ Created("t1")
    /\ ~lv["t1"].fatal
    /\ lv["t1"].errcode0 # MPI_SUCCESS
    /\ PassedValidation("t1")
    /\ FatalBit(lv["t1"].ret)

\* A fatal lastcode that failed the check: the code returned is not fatal
\* and its entry has no previous code
C34_WitnessRoot ==
    /\ Created("t1")
    /\ FatalBit(lv["t1"].errcode0)
    /\ ~PassedValidation("t1")
    /\ ~FatalBit(lv["t1"].ret)
    /\ ErrorRing[lv["t1"].ring_idx].prev_error = MPI_SUCCESS


(***************************************************************************)
(* MPIR_call_errhandler with a handler of the user.                        *)
(***************************************************************************)
UserDefined(t) == lv[t].errhandler \in {"USER_C", "USER_X"}

\* C35: with a user handler of either language MPIR_call_errhandler calls
\* the handler once and returns MPI_SUCCESS, whatever the code passed in
\* and whatever the handler stores through &errorcode; an
\* MPIR_Err_return_xxx routine that returns under a user handler returns
\* MPI_SUCCESS
C35_UserHandlerOnceThenSuccess ==
    [][\A t \in Threads :
         /\ (pc[t] = "call" /\ UserDefined(t) /\ pc'[t] # "call") =>
              /\ pc'[t] = "callback"
              /\ lv[t].cb = NoCall
              /\ lv'[t].cb # NoCall
         /\ (pc'[t] = "callback" /\ pc[t] # "callback") =>
              pc[t] = "call" /\ UserDefined(t)
         /\ (pc[t] = "callback" /\ pc'[t] # "callback") =>
              /\ pc'[t] = "returned"
              /\ lv'[t].cb = lv[t].cb
              /\ lv'[t].ret = MPI_SUCCESS
         /\ (pc'[t] = "returned" /\ pc[t] # "returned"
               /\ lv'[t].op = "dispatch" /\ lv'[t].errhandler \in {"USER_C", "USER_X"}) =>
              /\ pc[t] = "callback"
              /\ lv'[t].ret = MPI_SUCCESS]_vars

\* A C handler was passed a code other than MPI_SUCCESS, stored another
\* one, and the routine has returned
C35_Witness ==
    /\ pc["t1"] = "returned"
    /\ lv["t1"].op = "dispatch"
    /\ lv["t1"].cb.language = "MPIR_LANG__C"
    /\ lv["t1"].cb.errcode \notin {MPI_SUCCESS, MPI_ERR_INTERN}
    /\ lv["t1"].errorcode = MPI_ERR_INTERN
    /\ lv["t1"].ret = MPI_SUCCESS

\* A handler of the other language was called with the code and the
\* routine has returned
C35_WitnessX ==
    /\ pc["t1"] = "returned"
    /\ lv["t1"].op = "dispatch"
    /\ lv["t1"].cb.language = "MPIR_LANG__X"
    /\ lv["t1"].cb.errcode # MPI_SUCCESS
    /\ lv["t1"].ret = MPI_SUCCESS


(***************************************************************************)
(* error_ring_mutex_lock and error_ring_mutex_unlock of one call, with     *)
(* MPIR_Err_init between them.                                             *)
(***************************************************************************)
\* Thread t leaves the locked part of MPIR_Err_create_code
LeavesLocked(t) == pc[t] = "cc_unlock" /\ pc'[t] = "returned"

\* C36: lock and unlock are balanced in every interleaving of
\* MPIR_Err_init with the ring operations: a thread calls
\* MPID_Thread_mutex_unlock only on the mutex it locked in the same
\* call, and holds no lock once the call is over, also when did_err_init
\* is set between the lock and the unlock of the call
C36_LockUnlockBalanced ==
    /\ [][\A t \in Threads :
            LeavesLocked(t) /\ did_err_init => error_ring_mutex = t]_vars
    /\ [](\A t \in Threads :
            pc[t] \in {"idle", "returned"} => error_ring_mutex # t)


(***************************************************************************)
(* MPIR_Err_return_session_init and                                        *)
(* MPIR_Err_return_comm_create_from_group, the two routines that are       *)
(* passed the handler itself.                                              *)
(***************************************************************************)
\* A call of one of the two routines is over
DirectEnded(t) ==
    Ended(t) /\ lv[t].entry \in {"session_init", "comm_create_from_group"}

\* The branch taken and the value returned
BranchAndValue(o) == [kind |-> o.kind, ret |-> o.ret]

\* The branch and value that depend on the handler, the code, the ring and
\* the initialization only: the fatal path before MPI is initialized, for a
\* fatal code and for a handler that is fatal; MPIR_Err_return_comm(NULL)
\* for no handler; else what checkForUserErrcode yields, or MPI_SUCCESS
\* after a user handler
DirectOutcome(t) ==
    IF lv[t].obj = "NULL"
    THEN BranchAndValue(CommNullOutcome(t))
    ELSE BranchAndValue(HandlerOutcome(t, lv[t].obj, "NULL"))

\* C37 (as stated): the two routines take the same branch and return the
\* same value for the same handler, code, ring and initialization, also for
\* a fatal code or before MPI is initialized under MPI_ERRORS_RETURN, and
\* for a code with a user error code.
C37_DirectEntriesEquivalent ==
    \A t \in Threads :
        DirectEnded(t) => BranchAndValue(Outcome(t)) = DirectOutcome(t)

\* C37 (amended): the two routines take the same branch and return the same
\* value except under MPI_ERRORS_RETURN and MPIR_ERRORS_THROW_EXCEPTIONS,
\* with which MPIR_Err_return_session_init returns the code (its class
\* repaired) at once, fatal or not, initialized or not, with no user error
\* code put in its place, while MPIR_Err_return_comm_create_from_group
\* takes the fatal path before MPI is initialized and for a fatal code and
\* else returns what checkForUserErrcode yields.
C37_DirectEntriesEquivalentButReturn ==
    \A t \in Threads :
        DirectEnded(t) =>
            BranchAndValue(Outcome(t)) =
                IF ReturningSessionInit(lv[t])
                THEN [kind |-> "returned", ret |-> RepairedCode(lv[t])]
                ELSE DirectOutcome(t)

\* MPIR_Err_return_comm_create_from_group has ended on the fatal path with
\* MPI_ERRORS_RETURN before MPI was initialized
C37_Witness ==
    \E t \in Threads :
        /\ DirectEnded(t)
        /\ lv[t].entry = "comm_create_from_group"
        /\ lv[t].obj = "RETURN"
        /\ ~lv[t].was_init
        /\ pc[t] = "aborted"

\* MPIR_Err_return_session_init has returned a fatal code with
\* MPI_ERRORS_RETURN
C37_WitnessSessionInit ==
    \E t \in Threads :
        /\ DirectEnded(t)
        /\ lv[t].entry = "session_init"
        /\ lv[t].obj = "RETURN"
        /\ MPIR_Err_is_fatal(lv[t].errcode0)
        /\ pc[t] = "returned"
        /\ lv[t].ret = lv[t].errcode0

\* Both routines have called a user handler and returned MPI_SUCCESS
C37_WitnessUser ==
    \E t \in Threads :
        /\ DirectEnded(t)
        /\ lv[t].obj = "USER_C"
        /\ lv[t].cb # NoCall
        /\ pc[t] = "returned"
        /\ lv[t].ret = MPI_SUCCESS

\* MPIR_Err_return_comm_create_from_group has returned the user error code
\* of a code with MPI_ERRORS_RETURN
C37_WitnessUserCode ==
    \E t \in Threads :
        /\ DirectEnded(t)
        /\ lv[t].entry = "comm_create_from_group"
        /\ lv[t].obj = "RETURN"
        /\ pc[t] = "returned"
        /\ lv[t].ret # lv[t].errcode0
        /\ lv[t].ret = UserCodeFor(t)


(***************************************************************************)
(* The loop of MPIR_Err_print_stack_string that cuts a message into lines. *)
(***************************************************************************)
\* The text was asked for with lines of MPIR_CVAR_CHOP_ERROR_STACK > 0
\* characters
Chopped(t) ==
    /\ Texted(t)
    /\ MPIR_CVAR_PRINT_ERROR_STACK
    /\ MPIR_CVAR_CHOP_ERROR_STACK > 0

\* C38: with MPIR_CVAR_CHOP_ERROR_STACK > 0 the loop ends for every width,
\* message and buffer, also for a width of max_location_len + 1 or less:
\* it writes no more pieces than the buffer has bytes, and every piece
\* takes at least one character of the message or is the last one written
C38_ChopLoopEnds ==
    \A t \in Threads :
        Chopped(t) =>
            /\ Len(lv[t].out.wraps) <= lv[t].pre.length
            /\ \A i \in 1 .. Len(lv[t].out.wraps) - 1 :
                 lv[t].out.wraps[i] >= 1

\* The part of C38 that holds: the pieces written are fewer than the bytes
\* of the buffer
C38_PiecesBounded ==
    \A t \in Threads :
        Chopped(t) => Len(lv[t].out.wraps) <= lv[t].pre.length


(***************************************************************************)
(* The specification of the frame of the ring: one thread makes            *)
(* MAX_ERROR_RING + 1 appends, with and without a user error code, and     *)
(* then asks for the text of a code, combines two codes or reports a code  *)
(* on a window.                                                            *)
(***************************************************************************)
FrameArgs ==
    LET Arg(class, generic, specific, cite, lastcode) ==
          [error_class |-> class, generic_msg |-> generic,
           specific_msg |-> specific, cite |-> cite, lastcode |-> lastcode,
           fatal |-> FALSE]
    IN  { Arg(MPI_ERR_BUFFER, USER_KEY, <<42, 42, 102, 32, 37, 100>>, TRUE, 0),
          Arg(MPI_ERR_BUFFER, <<42, 42, 102>>, <<97, 98>>, TRUE, 0),
          Arg(MPI_ERR_INTERN, <<42, 42, 102>>, <<97, 99>>, FALSE, MPI_SUCCESS) }

InitFrame ==
    /\ ErrorRing = [i \in 0 .. MAX_ERROR_RING - 1 |-> ZeroEntry]
    /\ error_ring_loc = 0
    /\ max_error_ring_loc = 0
    /\ did_err_init = TRUE
    /\ mpich_state = "INITIALIZED"
    /\ MPIR_CVAR_PRINT_ERROR_STACK = TRUE
    /\ MPIR_CVAR_CHOP_ERROR_STACK = 0
    /\ err_init_runs = [mutex |-> 1, chop |-> 0]
    /\ error_ring_mutex = "free"
    /\ comm_mutex = [c \in DOMAIN CommHandler |-> "free"]
    /\ comm_self = "selfN"
    /\ comm_world = "worldN"
    /\ pc = [t \in Threads |-> "idle"]
    /\ lv = [t \in Threads |-> NoLocals]
    /\ codes = {}
    /\ ncreates = 0
    /\ ndispatches = 0
    /\ appends \in [1 .. MAX_ERROR_RING + 1 -> FrameArgs]
    /\ chain = <<>>
    /\ aborted = "no"

SpecFrame == InitFrame /\ [][NextChain]_vars

\* Thread t is in checkErrcodeIsValid (the start of an append),
\* checkForUserErrcode, or the rendering of MPIR_Err_get_string
Reads(t) ==
    \/ pc[t] = "idle" /\ pc'[t] \in {"cc_lock", "gs_walk"}
    \/ pc[t] \in {"user_lock", "user_body", "user_unlock", "gs_walk",
                  "gs_unlock"} /\ pc'[t] # pc[t]

\* C39: an append changes one entry of the ring, the one at the cursor the
\* call found, and leaves nothing of what the entry held: id, previous
\* code, message and location are those of the call, and the entry holds a
\* user error code only if the call has one or lastcode is a code; every
\* other entry is as it was.  checkErrcodeIsValid, checkForUserErrcode and
\* the rendering change nothing of the ring
C39_AppendWritesOneEntry ==
    [][\A t \in Threads :
         /\ Appends(t) =>
              LET l == lv[t]
                  new == ErrorRing'[l.ring_idx]
              IN  /\ l.ring_idx = error_ring_loc
                  /\ \A i \in DOMAIN ErrorRing :
                       i # l.ring_idx => ErrorRing'[i] = ErrorRing[i]
                  /\ new.id = ErrcodeCreateID(l.error_class, l.generic_idx,
                                              l.msg).id
                  /\ new.prev_error = l.lastcode
                  /\ new.msg = l.msg
                  /\ new.location = l.location
                  /\ l.use_user_error_code = 1 =>
                       /\ new.use_user_error_code = 1
                       /\ new.user_error_code = l.user_error_code
                  /\ (l.use_user_error_code = 0 /\ l.lastcode = MPI_SUCCESS) =>
                       /\ new.use_user_error_code = 0
                       /\ new.user_error_code = 0
         /\ Reads(t) => UNCHANGED ringVars]_vars

\* The ring has wrapped: the append that has just written slot 0 has no
\* user error code and no lastcode, the entry it replaced held one, and
\* the other entry is still there
C39_Witness ==
    /\ pc["t1"] = "cc_unlock"
    /\ ncreates = MAX_ERROR_RING + 1
    /\ lv["t1"].ring_idx = 0
    /\ lv["t1"].use_user_error_code = 0
    /\ lv["t1"].lastcode = MPI_SUCCESS
    /\ appends[1].generic_msg = USER_KEY
    /\ ErrorRing[0].use_user_error_code = 0
    /\ ErrorRing[1].id # 0

\* checkForUserErrcode has read the user error code of an entry
C39_WitnessRead ==
    /\ pc["t1"] = "user_unlock"
    /\ lv["t1"].errcode # lv["t1"].errcode0
    /\ ErrorRing[0].id # 0


(***************************************************************************)
(* The locks an MPIR_Err_return_xxx routine holds when it is over.         *)
(***************************************************************************)
\* Thread t makes the MPID_THREAD_CS_EXIT of line 277, of line 316 or of
\* line 331
ExitsComm(t) ==
    \/ pc[t] = "comm_own_rd" /\ pc'[t] # "comm_own_rd"
    \/ pc[t] = "comm_rd" /\ pc'[t] = "fatal"
    \/ pc[t] \in {"call", "callback"} /\ pc'[t] = "returned" /\ lv[t].via_comm

\* C40: a routine that has returned or has called MPID_Abort holds neither
\* error_ring_mutex nor the mutex of a communicator; a thread takes the
\* mutex of a communicator only when it holds none, every
\* MPID_THREAD_CS_EXIT is made on a mutex the thread holds, and the mutex
\* is given up by that step and by no other
C40_NoLockLeaks ==
    /\ [](\A t \in Threads :
            Ended(t) => error_ring_mutex # t /\ HoldsNoCommLock(t))
    /\ [][\A t \in Threads :
            /\ ExitsComm(t) =>
                 /\ comm_mutex[lv[t].comm_ptr] = t
                 /\ comm_mutex'[lv[t].comm_ptr] = "free"
            /\ \A c \in DOMAIN comm_mutex :
                 /\ (comm_mutex[c] = t /\ comm_mutex'[c] # t) =>
                      ExitsComm(t) /\ c = lv[t].comm_ptr
                 /\ (comm_mutex[c] # t /\ comm_mutex'[c] = t) =>
                      comm_mutex[c] = "free" /\ HoldsNoCommLock(t)]_vars

\* MPIR_Err_return_comm has returned from a user handler it called with
\* the mutex of the communicator taken
C40_Witness ==
    \E t \in Threads :
        /\ Ended(t)
        /\ pc[t] = "returned"
        /\ lv[t].via_comm
        /\ lv[t].cb # NoCall
        /\ lv[t].hread.held
        /\ HoldsNoCommLock(t)

\* MPID_Abort was called after the handler was read with the mutex taken,
\* and after the ring was walked with error_ring_mutex taken
C40_WitnessAbort ==
    \E t \in Threads :
        /\ Ended(t)
        /\ pc[t] = "aborted"
        /\ lv[t].hread.held
        /\ lv[t].access.held
        /\ error_ring_mutex # t
        /\ HoldsNoCommLock(t)

=============================================================================
